---- MODULE Spec2Model ----
(***************************************************************************)
(* Commission engine of in2commission.                                     *)
(*                                                                         *)
(* Three copies of calculateCommission exist in the repository:            *)
(*   lib      src/src/lib/commissionEngine.ts                              *)
(*   edge     src/supabase/functions/calculate-commission/index.ts         *)
(*   monthly  src/unnamed/part_001 (the monthly run)                       *)
(* Each is a pure function of (team, deals, meetings, settings).  The      *)
(* state machine draws a rep's input and applies one of the three copies;  *)
(* the caller may then turn to another rep and apply the same copy again.  *)
(*                                                                         *)
(* Three callers of the engine are modelled as state machines of their     *)
(* own, each held in one record-valued variable:                           *)
(*   cron     the owner loop of the monthly run (src/unnamed/part_001)     *)
(*   handler  the SDR meeting collection of calculate-commission           *)
(*   page     the Run Commissions page (src/src/pages/RunCommissions.tsx)  *)
(*                                                                         *)
(* Number representation (JavaScript numbers are modelled as exact         *)
(* fixed-point values; rounding of IEEE doubles is not modelled):          *)
(*   amount, totalRevenue, min, max, bonus_amount   whole currency units   *)
(*   multiplier                                     tenths  (15 = 1.5)     *)
(*   percent, bonus_percent, *_percent              tenths  (75 = 7.5 %)   *)
(*   adjustedRevenue, adjustedInboundRevenue        tenths of a unit       *)
(*   dealCommission, meetingBonus, totalCommission,                        *)
(*   weeklyBreakdown[i].bonus, usedPaymentTermBonuses[i].amount            *)
(*                                         1/10000 of a currency unit      *)
(* Strings are sequences of one-character strings, so that toLowerCase     *)
(* and includes are computed and not assumed.                              *)
(***************************************************************************)
EXTENDS Integers, Sequences, FiniteSets, TLC

VARIABLES team, deals, meetings, settings, variant, result, calls,
          cron, handler, page

vars == <<team, deals, meetings, settings, variant, result, calls,
          cron, handler, page>>

(***************************************************************************)
(* JavaScript values that are not numbers                                  *)
(***************************************************************************)
\* max: number | null
Null == -1
\* a property that is not there (tier.rate_per_meeting on a bonus_amount row)
Undefined == -2
\* number * undefined, number + undefined
NaN == -3

IsNumber(x) == x >= 0

\* a + b
Plus(a, b) == IF IsNumber(a) /\ IsNumber(b) THEN a + b ELSE NaN

\* a * b
Times(a, b) == IF IsNumber(a) /\ IsNumber(b) THEN a * b ELSE NaN

\* a whole-unit amount on the 1/10000 scale of commissions
Money(x) == Times(x, 10000)

(***************************************************************************)
(* Strings                                                                 *)
(***************************************************************************)
UpperAlpha == <<"A","B","C","D","E","F","G","H","I","J","K","L","M",
                "N","O","P","Q","R","S","T","U","V","W","X","Y","Z">>
LowerAlpha == <<"a","b","c","d","e","f","g","h","i","j","k","l","m",
                "n","o","p","q","r","s","t","u","v","w","x","y","z">>

\* the characters that occur in the strings of the model
Alphabet ==
  {UpperAlpha[i] : i \in DOMAIN UpperAlpha} \cup {LowerAlpha[i] : i \in DOMAIN LowerAlpha}
    \cup {"0","1","2","3","4","5","6","7","8","9"," ","-","/"}

\* the lower-case form of every character: letters A-Z map to a-z, any other
\* character to itself
LowerChar ==
  [c \in Alphabet |->
     IF \E i \in DOMAIN UpperAlpha : UpperAlpha[i] = c
     THEN LowerAlpha[CHOOSE i \in DOMAIN UpperAlpha : UpperAlpha[i] = c]
     ELSE c]

\* String.prototype.toLowerCase
toLowerCase(s) == [i \in DOMAIN s |-> LowerChar[s[i]]]

\* String.prototype.includes
includes(s, sub) ==
  \E i \in 0..(Len(s) - Len(sub)) : SubSeq(s, i + 1, i + Len(sub)) = sub

\* an optional string property: present (def) with its characters, or missing
Str(chars) == [def |-> TRUE, s |-> chars]
Missing == [def |-> FALSE, s |-> <<>>]

\* x?.toLowerCase().includes(sub): undefined (falsy) when x is missing
OptIncludes(x, sub) == x.def /\ includes(toLowerCase(x.s), sub)

\* x?.toLowerCase() === lit
OptEqualsLower(x, lit) == x.def /\ toLowerCase(x.s) = lit

\* if (x): a missing or empty string is falsy
Truthy(x) == x.def /\ x.s # <<>>

s_closed == <<"c","l","o","s","e","d">>
s_won == <<"w","o","n">>
s_inbound == <<"i","n","b","o","u","n","d">>
s_ae == <<"a","e">>
s_sdr == <<"s","d","r">>
s_marketing == <<"m","a","r","k","e","t","i","n","g">>
s_AE == <<"A","E">>
s_SDR == <<"S","D","R">>
s_Marketing == <<"M","a","r","k","e","t","i","n","g">>

(***************************************************************************)
(* Dates: a timestamp is the number of days since Monday 2024-01-01        *)
(***************************************************************************)
\* ordinal of 1 January of 2024, 2025, 2026, 2027
YearStarts == <<0, 366, 731, 1096>>

\* new Date(Date.UTC(d.getUTCFullYear(), 0, 1)) for the day ordinal d
YearStartOf(d) ==
  LET i == CHOOSE k \in DOMAIN YearStarts :
             /\ YearStarts[k] <= d
             /\ \A j \in DOMAIN YearStarts : YearStarts[j] <= d => j <= k
  IN YearStarts[i]

\* getISOWeek: the week of the year of the Thursday of the date's week
getISOWeek(date) ==
  LET dayNum == (date % 7) + 1                 \* getUTCDay() || 7, Monday = 1
      d == date + 4 - dayNum
      yearStart == YearStartOf(d)
  IN ((d - yearStart) \div 7) + 1              \* ceil(((d - yearStart) + 1) / 7)

(***************************************************************************)
(* Array helpers                                                           *)
(***************************************************************************)
RECURSIVE SumAmounts(_)
\* ds.reduce((sum, deal) => sum + deal.amount, 0), summed left to right
SumAmounts(ds) ==
  IF ds = <<>> THEN 0
  ELSE Plus(SumAmounts(SubSeq(ds, 1, Len(ds) - 1)), ds[Len(ds)].amount)

RECURSIVE SumAmountsOrZero(_)
\* ds.reduce((sum, deal) => sum + (deal.amount || 0), 0)
SumAmountsOrZero(ds) ==
  IF ds = <<>> THEN 0
  ELSE Plus(SumAmountsOrZero(SubSeq(ds, 1, Len(ds) - 1)),
            IF IsNumber(ds[Len(ds)].amount) THEN ds[Len(ds)].amount ELSE 0)

\* InRange with the upper bound included
InRange_closedMax(b, value) ==
  IsNumber(value) /\ value >= b.min /\ (b.max = Null \/ value <= b.max)

\* b => value >= b.min && (b.max === null || value < b.max); a comparison
\* with NaN is false
InRange(b, value) ==
  IsNumber(value) /\ value >= b.min /\ (b.max = Null \/ value < b.max)

\* Array.prototype.find with the range predicate: index of the first entry of
\* the table whose range holds value (value and the bounds scaled alike),
\* 0 when find returns undefined
FindRange(table, value, scale) ==
  LET hits == {i \in DOMAIN table :
                 InRange([min |-> table[i].min * scale,
                          max |-> IF table[i].max = Null THEN Null
                                  ELSE table[i].max * scale], value)}
  IN IF hits = {} THEN 0 ELSE CHOOSE i \in hits : \A j \in hits : i <= j

\* settings.ae_payment_term_bonuses.find(b => b.term.toLowerCase() ===
\*   deal.payment_terms?.toLowerCase())
FindTerm(table, terms) ==
  LET hits == {i \in DOMAIN table :
                 terms.def /\ toLowerCase(table[i].term) = toLowerCase(terms.s)}
  IN IF hits = {} THEN 0 ELSE CHOOSE i \in hits : \A j \in hits : i <= j

RECURSIVE SortedSeq(_)
\* the integer keys of an object, in the order Object.entries yields them
SortedSeq(S) ==
  IF S = {} THEN <<>>
  ELSE LET m == CHOOSE x \in S : \A y \in S : x <= y
       IN <<m>> \o SortedSeq(S \ {m})

(***************************************************************************)
(* calculateCommission, the parts the three copies share                   *)
(***************************************************************************)
\* IsClosedWon with the 'won' test dropped
IsClosedWon_closedOnly(d) == OptIncludes(d.dealstage, s_closed)

\* d.dealstage?.toLowerCase().includes('closed') &&
\* d.dealstage?.toLowerCase().includes('won')
IsClosedWon(d) ==
  OptIncludes(d.dealstage, s_closed) /\ OptIncludes(d.dealstage, s_won)

closedWonDeals(ds) == SelectSeq(ds, IsClosedWon)

\* IsInbound as a containment test
IsInbound_substring(d) == OptIncludes(d.deal_channel, s_inbound)

\* d.deal_channel?.toLowerCase() === 'inbound'
IsInbound(d) == OptEqualsLower(d.deal_channel, s_inbound)

\* d.channel?.toLowerCase() === 'inbound' (calculate-commission, index.ts:500)
IsInboundChannel(d) == OptEqualsLower(d.channel, s_inbound)

\* settings.<table>: falsy when the column is not in the settings row
Has(st, name) == name \notin st.absent

\* const multiplierBracket = table.find(...);
\* if (multiplierBracket) adjusted = revenue * multiplierBracket.multiplier
\* (result in tenths of a unit)
ApplyMultiplier(table, revenue) ==
  LET i == FindRange(table, revenue, 1)
  IN IF i = 0 THEN Times(revenue, 10) ELSE Times(revenue, table[i].multiplier)

\* adjustedRevenueOf that looks only at the AE table, whatever the team
adjustedRevenueOf_aeTableForAll(isA, isS, isM, totalRevenue, st) ==
  IF (isA \/ isS \/ isM) /\ Has(st, "ae_revenue_multiplier_brackets")
  THEN ApplyMultiplier(st.ae_revenue_multiplier_brackets, totalRevenue)
  ELSE Times(totalRevenue, 10)

\* the if / else-if chain that applies the revenue multiplier; isA, isS, isM
\* are the three team tests of the copy at hand
adjustedRevenueOf(isA, isS, isM, totalRevenue, st) ==
  IF isA /\ Has(st, "ae_revenue_multiplier_brackets")
  THEN ApplyMultiplier(st.ae_revenue_multiplier_brackets, totalRevenue)
  ELSE IF isS /\ Has(st, "sdr_revenue_multiplier_brackets")
  THEN ApplyMultiplier(st.sdr_revenue_multiplier_brackets, totalRevenue)
  ELSE IF isM /\ Has(st, "marketing_revenue_multiplier_brackets")
  THEN ApplyMultiplier(st.marketing_revenue_multiplier_brackets, totalRevenue)
  ELSE Times(totalRevenue, 10)

\* BranchOf that pays every Marketing rep as an SDR
BranchOf_marketingAlwaysSdr(isA, isS, isM, st) ==
  IF isA THEN "AE" ELSE IF isS \/ isM THEN "SDR" ELSE "none"

\* BranchOf with the priority reversed: Marketing, then SDR, then AE
BranchOf_marketingFirst(isA, isS, isM, st) ==
  IF isM /\ ~st.marketing_same_as_sdr THEN "Marketing"
  ELSE IF isS \/ (isM /\ st.marketing_same_as_sdr) THEN "SDR"
  ELSE IF isA THEN "AE"
  ELSE "none"

\* BranchOf without the marketing_same_as_sdr test
BranchOf_ignoreSameFlag(isA, isS, isM, st) ==
  IF isA THEN "AE" ELSE IF isS THEN "SDR" ELSE IF isM THEN "Marketing" ELSE "none"

\* the if / else-if chain that picks the commission branch
BranchOf(isA, isS, isM, st) ==
  IF isA THEN "AE"
  ELSE IF isS \/ (isM /\ st.marketing_same_as_sdr) THEN "SDR"
  ELSE IF isM /\ ~st.marketing_same_as_sdr THEN "Marketing"
  ELSE "none"

\* index into ae_brackets of the bracket found for adjustedRevenue (tenths)
aeBracketIndex(adjustedRevenue, st) ==
  FindRange(st.ae_brackets, adjustedRevenue, 10)

\* aeBracketCommission that pays the percent on the revenue above the
\* bracket's min only
aeBracketCommission_aboveMin(adjustedRevenue, st) ==
  LET i == aeBracketIndex(adjustedRevenue, st)
  IN IF i = 0 THEN 0
     ELSE Times(adjustedRevenue - st.ae_brackets[i].min * 10,
                st.ae_brackets[i].percent)

\* aeBracketCommission that falls back to the first listed bracket
aeBracketCommission_fallbackFirst(adjustedRevenue, st) ==
  LET i == aeBracketIndex(adjustedRevenue, st)
  IN IF i # 0 THEN Times(adjustedRevenue, st.ae_brackets[i].percent)
     ELSE IF st.ae_brackets = <<>> THEN 0
     ELSE Times(adjustedRevenue, st.ae_brackets[1].percent)

\* dealCommission = adjustedRevenue * (bracket.percent / 100), 0 without bracket
aeBracketCommission(adjustedRevenue, st) ==
  LET i == aeBracketIndex(adjustedRevenue, st)
  IN IF i = 0 THEN 0 ELSE Times(adjustedRevenue, st.ae_brackets[i].percent)

\* const bonusAmount = deal.amount * (bonus.bonus_percent / 100)
termBonusAmount(deal, bonus) == Times(Times(deal.amount, bonus.bonus_percent), 10)

\* earnsTermBonus with a case-sensitive comparison of the term
earnsTermBonus_caseSensitive(deal, st) ==
  Truthy(deal.payment_terms)
  /\ \E i \in DOMAIN st.ae_payment_term_bonuses :
       st.ae_payment_term_bonuses[i].term = deal.payment_terms.s

\* if (deal.payment_terms) { const bonus = ...find(...); if (bonus) ... }
earnsTermBonus(deal, st) ==
  Truthy(deal.payment_terms)
  /\ FindTerm(st.ae_payment_term_bonuses, deal.payment_terms) # 0

RECURSIVE termBonuses(_, _)
\* closedWonDeals.forEach(...): the {term, amount} entries pushed, in deal order
termBonuses(cw, st) ==
  IF cw = <<>> THEN <<>>
  ELSE LET deal == cw[Len(cw)]
           rest == termBonuses(SubSeq(cw, 1, Len(cw) - 1), st)
       IN IF earnsTermBonus(deal, st)
          THEN LET bonus == st.ae_payment_term_bonuses[
                              FindTerm(st.ae_payment_term_bonuses, deal.payment_terms)]
               IN Append(rest, [term |-> bonus.term,
                                amount |-> termBonusAmount(deal, bonus)])
          ELSE rest

RECURSIVE SumField(_, _)
\* acc += entry.<amount>, left to right, starting from start
SumField(entries, start) ==
  IF entries = <<>> THEN start
  ELSE Plus(SumField(SubSeq(entries, 1, Len(entries) - 1), start),
            entries[Len(entries)].amount)

\* the AE branch throws a TypeError when it calls find on a missing table
aeThrows(cw, st) ==
  \/ ~Has(st, "ae_brackets")
  \/ /\ ~Has(st, "ae_payment_term_bonuses")
     /\ \E i \in DOMAIN cw : Truthy(cw[i].payment_terms)

\* weeklyMeetings: the ISO week numbers that hold at least one meeting
weekKeys(ms) == {getISOWeek(ms[i].timestamp) : i \in DOMAIN ms}

\* weeklyMeetings[weekNum].length
meetingsInWeek(ms, w) ==
  Cardinality({i \in DOMAIN ms : getISOWeek(ms[i].timestamp) = w})

\* the SDR branch throws a TypeError when there is a week and no tier table
sdrThrows(ms, st) == ~Has(st, "sdr_meeting_tiers") /\ ms # <<>>

\* the Marketing inbound branch, from inboundRevenue (result in 1/10000 units)
marketingCommission(inboundRevenue, st) ==
  LET adjustedInboundRevenue ==
        IF Has(st, "marketing_revenue_multiplier_brackets")
        THEN ApplyMultiplier(st.marketing_revenue_multiplier_brackets, inboundRevenue)
        ELSE Times(inboundRevenue, 10)
  IN Times(adjustedInboundRevenue, st.marketing_inbound_percent)

\* the tier found for a week's meeting count, 0 when find returns undefined
tierIndex(meetingCount, st) == FindRange(st.sdr_meeting_tiers, meetingCount, 1)

\* src/lib: const weekBonus = meetingCount * tier.rate_per_meeting
weekBonus_lib(meetingCount, tier) == Money(Times(meetingCount, tier.rate_per_meeting))

\* weekBonus_edge paid per meeting
weekBonus_edge_perMeeting(meetingCount, tier) ==
  IF tier.bonus_amount = Undefined THEN Undefined
  ELSE Money(Times(meetingCount, tier.bonus_amount))

\* edge functions: bonus: tier.bonus_amount
weekBonus_edge(meetingCount, tier) ==
  IF tier.bonus_amount = Undefined THEN Undefined ELSE Money(tier.bonus_amount)

\* Object.entries(weeklyMeetings).forEach(...) with if (tier): the weeks whose
\* count matches a tier, in ascending week order
HasTier(ms, st, w) == tierIndex(meetingsInWeek(ms, w), st) # 0

RECURSIVE InsertionOrder(_)
\* the week keys in the order in which the meetings first produce them
InsertionOrder(ms) ==
  IF ms = <<>> THEN <<>>
  ELSE LET rest == InsertionOrder(SubSeq(ms, 1, Len(ms) - 1))
           w == getISOWeek(ms[Len(ms)].timestamp)
       IN IF \E i \in DOMAIN rest : rest[i] = w THEN rest ELSE Append(rest, w)

\* matchedWeeks with the weeks in insertion order
matchedWeeks_insertionOrder(ms, st) ==
  LET Matches(w) == HasTier(ms, st, w)
  IN SelectSeq(InsertionOrder(ms), Matches)

matchedWeeks(ms, st) ==
  LET Matches(w) == HasTier(ms, st, w)
  IN SelectSeq(SortedSeq(weekKeys(ms)), Matches)

\* src/lib: weeklyBreakdown.push({ week, meetings: meetingCount, bonus: weekBonus })
weeklyBreakdown_lib(ms, st) ==
  LET matched == matchedWeeks(ms, st)
  IN [i \in DOMAIN matched |->
        LET n == meetingsInWeek(ms, matched[i])
        IN [week |-> matched[i], meetings |-> n,
            bonus |-> weekBonus_lib(n, st.sdr_meeting_tiers[tierIndex(n, st)])]]

\* edge functions: weeklyBreakdown.push({ week, meetings, bonus: tier.bonus_amount })
weeklyBreakdown_edge(ms, st) ==
  LET matched == matchedWeeks(ms, st)
  IN [i \in DOMAIN matched |->
        LET n == meetingsInWeek(ms, matched[i])
        IN [week |-> matched[i], meetings |-> n,
            bonus |-> weekBonus_edge(n, st.sdr_meeting_tiers[tierIndex(n, st)])]]

RECURSIVE SumBonus(_)
\* meetingBonus += <the week's bonus>, from 0, in entry order
SumBonus(entries) ==
  IF entries = <<>> THEN 0
  ELSE Plus(SumBonus(SubSeq(entries, 1, Len(entries) - 1)),
            entries[Len(entries)].bonus)

(***************************************************************************)
(* The result object (adjustedRevenue and branch are locals of the call,   *)
(* kept beside the returned fields)                                        *)
(***************************************************************************)
NoResult ==
  [status |-> "none", totalRevenue |-> 0, adjustedRevenue |-> 0, branch |-> "none",
   dealCommission |-> 0, meetingBonus |-> 0, totalCommission |-> 0,
   totalMeetings |-> 0, weeklyBreakdown |-> <<>>,
   usedBracketPercent |-> Undefined, usedPaymentTermBonuses |-> <<>>,
   error |-> "none"]

\* TypeError: Cannot read properties of undefined (reading 'find')
Thrown == [NoResult EXCEPT !.status = "threw", !.error = "TypeError"]

\* does the branch taken throw before the function returns
branchThrows(branch, cw, ms, st) ==
  \/ branch = "AE" /\ aeThrows(cw, st)
  \/ branch = "SDR" /\ sdrThrows(ms, st)

\* sdrCommission with the Marketing percent
sdrCommission_inboundPercent(adjustedRevenue, st) ==
  Times(adjustedRevenue, st.marketing_inbound_percent)

\* const closedWonBonus = adjustedRevenue * (settings.sdr_closed_won_percent / 100)
sdrCommission(adjustedRevenue, st) == Times(adjustedRevenue, st.sdr_closed_won_percent)

\* totalCommissionOf with the meeting bonus left out
totalCommissionOf_dealOnly(dealCommission, meetingBonus) == dealCommission

\* const totalCommission = dealCommission + meetingBonus
totalCommissionOf(dealCommission, meetingBonus) == Plus(dealCommission, meetingBonus)

\* dealCommission after the branch taken
dealCommissionOf(branch, adjustedRevenue, cw, inboundRevenue, st) ==
  CASE branch = "AE" ->
         SumField(termBonuses(cw, st), aeBracketCommission(adjustedRevenue, st))
    [] branch = "SDR" -> sdrCommission(adjustedRevenue, st)
    [] branch = "Marketing" -> marketingCommission(inboundRevenue, st)
    [] OTHER -> 0

(***************************************************************************)
(* src/src/lib/commissionEngine.ts                                         *)
(***************************************************************************)
calculateCommission_lib(tm, ds, ms, st) ==
  LET cw == closedWonDeals(ds)
      totalRevenue == SumAmountsOrZero(cw)
      isA == tm = s_AE
      isS == tm = s_SDR
      isM == tm = s_Marketing
      adjustedRevenue == adjustedRevenueOf(isA, isS, isM, totalRevenue, st)
      branch == BranchOf(isA, isS, isM, st)
      inboundRevenue == SumAmountsOrZero(SelectSeq(cw, IsInbound))
      dealCommission == dealCommissionOf(branch, adjustedRevenue, cw, inboundRevenue, st)
      weeklyBreakdown == IF branch = "SDR"
                         THEN weeklyBreakdown_lib(ms, st) ELSE <<>>
      meetingBonus == SumBonus(weeklyBreakdown)
      bi == aeBracketIndex(adjustedRevenue, st)
      totalCommission == totalCommissionOf(dealCommission, meetingBonus)
  IN IF branchThrows(branch, cw, ms, st) THEN Thrown
     ELSE [status |-> "ok",
           error |-> "none",
           totalRevenue |-> totalRevenue,
           adjustedRevenue |-> adjustedRevenue,
           branch |-> branch,
           dealCommission |-> dealCommission,
           meetingBonus |-> meetingBonus,
           totalCommission |-> totalCommission,
           totalMeetings |-> Len(ms),
           weeklyBreakdown |-> weeklyBreakdown,
           usedBracketPercent |-> IF branch = "AE" /\ bi # 0
                                  THEN st.ae_brackets[bi].percent ELSE Undefined,
           usedPaymentTermBonuses |-> IF branch = "AE"
                                      THEN termBonuses(cw, st) ELSE <<>>]

(***************************************************************************)
(* src/supabase/functions/calculate-commission/index.ts                    *)
(***************************************************************************)
calculateCommission_edge(tm, ds, ms, st) ==
  LET cw == closedWonDeals(ds)
      totalRevenue == SumAmounts(cw)
      adjustedRevenue ==
        adjustedRevenueOf(tm = s_AE, tm = s_SDR, tm = s_Marketing, totalRevenue, st)
      teamLower == toLowerCase(tm)
      isAE == includes(teamLower, s_ae)
      isSDR == includes(teamLower, s_sdr)
      isMarketing == includes(teamLower, s_marketing)
      branch == BranchOf(isAE, isSDR, isMarketing, st)
      inboundRevenue == SumAmounts(SelectSeq(cw, IsInboundChannel))
      dealCommission == dealCommissionOf(branch, adjustedRevenue, cw, inboundRevenue, st)
      weeklyBreakdown == IF branch = "SDR"
                         THEN weeklyBreakdown_edge(ms, st) ELSE <<>>
      meetingBonus == SumBonus(weeklyBreakdown)
  IN IF branchThrows(branch, cw, ms, st) THEN Thrown
     ELSE [status |-> "ok",
           error |-> "none",
           totalRevenue |-> totalRevenue,
           adjustedRevenue |-> adjustedRevenue,
           branch |-> branch,
           dealCommission |-> dealCommission,
           meetingBonus |-> meetingBonus,
           totalCommission |-> totalCommissionOf(dealCommission, meetingBonus),
           totalMeetings |-> Len(ms),
           weeklyBreakdown |-> weeklyBreakdown,
           usedBracketPercent |-> Undefined,
           usedPaymentTermBonuses |-> <<>>]

(***************************************************************************)
(* src/unnamed/part_001, the monthly run                                   *)
(***************************************************************************)
calculateCommission_monthly(tm, ds, ms, st) ==
  LET cw == closedWonDeals(ds)
      totalRevenue == SumAmounts(cw)
      teamLower == toLowerCase(tm)
      isAE == includes(teamLower, s_ae)
      isSDR == includes(teamLower, s_sdr)
      isMarketing == includes(teamLower, s_marketing)
      adjustedRevenue == adjustedRevenueOf(isAE, isSDR, isMarketing, totalRevenue, st)
      branch == BranchOf(isAE, isSDR, isMarketing, st)
      inboundRevenue == SumAmounts(SelectSeq(cw, IsInbound))
      dealCommission == dealCommissionOf(branch, adjustedRevenue, cw, inboundRevenue, st)
      weeklyBreakdown == IF branch = "SDR"
                         THEN weeklyBreakdown_edge(ms, st) ELSE <<>>
      meetingBonus == SumBonus(weeklyBreakdown)
      \* if (team === 'AE') { const bracket = ae_brackets.find(totalRevenue ...) }
      bi == FindRange(st.ae_brackets, totalRevenue, 1)
  IN IF \/ branchThrows(branch, cw, ms, st)
        \/ tm = s_AE /\ ~Has(st, "ae_brackets")
     THEN Thrown
     ELSE [status |-> "ok",
           error |-> "none",
           totalRevenue |-> totalRevenue,
           adjustedRevenue |-> adjustedRevenue,
           branch |-> branch,
           dealCommission |-> dealCommission,
           meetingBonus |-> meetingBonus,
           totalCommission |-> totalCommissionOf(dealCommission, meetingBonus),
           totalMeetings |-> Len(ms),
           weeklyBreakdown |-> weeklyBreakdown,
           usedBracketPercent |-> IF tm = s_AE /\ bi # 0
                                  THEN st.ae_brackets[bi].percent ELSE Undefined,
           usedPaymentTermBonuses |-> <<>>]

\* the copy named by v
calculateCommission(v, tm, ds, ms, st) ==
  CASE v = "lib" -> calculateCommission_lib(tm, ds, ms, st)
    [] v = "edge" -> calculateCommission_edge(tm, ds, ms, st)
    [] v = "monthly" -> calculateCommission_monthly(tm, ds, ms, st)

(***************************************************************************)
(* Inputs                                                                  *)
(***************************************************************************)
MaxDeals == 2
MaxMeetings == 3
\* invocations in one run
MaxCalls == 2

t_AE == s_AE
t_SDR == s_SDR
t_Marketing == s_Marketing
t_ae == s_ae
t_SDRTeam == <<"S","D","R"," ","T","e","a","m">>
t_MarketingAE == <<"M","a","r","k","e","t","i","n","g"," ","A","E">>
t_Sales == <<"S","a","l","e","s">>
t_sdrMarketing == <<"s","d","r","/","M","a","r","k","e","t","i","n","g">>

Teams ==
  {t_AE, t_SDR, t_Marketing, t_ae, t_SDRTeam, t_MarketingAE, t_Sales, t_sdrMarketing}

c_ClosedWon == <<"C","l","o","s","e","d"," ","W","o","n">>
c_closedwon == <<"c","l","o","s","e","d","w","o","n">>
c_CLOSEDWON == <<"C","L","O","S","E","D"," ","W","O","N">>
c_ClosedLost == <<"C","l","o","s","e","d"," ","L","o","s","t">>
c_outbound == <<"o","u","t","b","o","u","n","d">>
c_Inbound == <<"I","n","b","o","u","n","d">>
c_inboundWeb == <<"i","n","b","o","u","n","d","-","w","e","b">>
c_3months == <<"3"," ","m","o","n","t","h","s">>
c_6months == <<"6"," ","m","o","n","t","h","s">>
c_6MONTHS == <<"6"," ","M","O","N","T","H","S">>
c_6Months == <<"6"," ","M","o","n","t","h","s">>
c_12months == <<"1","2"," ","m","o","n","t","h","s">>
c_24months == <<"2","4"," ","m","o","n","t","h","s">>

\* a deal whose channel is stored under both names the copies read:
\* deal_channel (src/lib, the second calculate-commission copy, the monthly
\* run) and channel (the first calculate-commission copy)
Deal(a, stage, channel, terms) ==
  [amount |-> a, dealstage |-> stage, deal_channel |-> channel, channel |-> channel,
   payment_terms |-> terms]

D1 == Deal(60000, Str(c_ClosedWon), Str(c_outbound), Str(c_6months))
D2 == Deal(10000, Str(c_closedwon), Str(c_Inbound), Missing)
D3 == Deal(500, Str(c_ClosedWon), Str(c_outbound), Str(c_6MONTHS))
D4 == Deal(20000, Str(c_ClosedLost), Str(s_inbound), Str(c_6months))
D5 == Deal(5000, Missing, Missing, Str(c_12months))
D6 == Deal(0, Str(c_CLOSEDWON), Str(s_inbound), Str(<<>>))
D7 == Deal(20000, Str(c_ClosedWon), Str(c_inboundWeb), Str(c_24months))
D9 == Deal(5000, Str(c_ClosedWon), Str(c_outbound), Missing)
D10 == Deal(500, Str(c_ClosedWon), Str(c_outbound), Missing)

\* deals of an AE: payment terms in several spellings, a lost deal
AeDealPool == {D1, D2, D3, D4, D7}
\* deals of an SDR or Marketing rep: channels, a deal without stage, amount 0
SdrDealPool == {D1, D2, D5, D6, D7}

SeqsUpTo(S, n) == UNION {[1..k -> S] : k \in 0..n}

\* 2024-01-08 (Mon, week 2 of 2024), 2025-01-06 (Mon, week 2),
\* 2025-01-12 (Sun, week 2), 2025-01-13 (Mon, week 3)
DayPool == {7, 371, 377, 378}

Meeting(day) == [timestamp |-> day]

MeetingLists == SeqsUpTo({Meeting(d) : d \in DayPool}, MaxMeetings)

Bracket(lo, hi, pct) == [min |-> lo, max |-> hi, percent |-> pct]
MultBracket(lo, hi, m) == [min |-> lo, max |-> hi, multiplier |-> m]
TermBonus(t, pct) == [term |-> t, bonus_percent |-> pct]
\* a tier row as the settings table stores it
Tier(lo, hi, amt) ==
  [min |-> lo, max |-> hi, bonus_amount |-> amt, rate_per_meeting |-> Undefined]
\* a tier row as the CommissionSettings interface of src/lib declares it
RateTier(lo, hi, rate) ==
  [min |-> lo, max |-> hi, bonus_amount |-> Undefined, rate_per_meeting |-> rate]

\* the seeded brackets with nothing between 50000 and 60000
DefaultAeBrackets_withGap ==
  <<Bracket(0, 50000, 50), Bracket(60000, 100000, 75), Bracket(100000, Null, 100)>>

\* the seeded configuration
DefaultAeBrackets ==
  <<Bracket(0, 50000, 50), Bracket(50000, 100000, 75), Bracket(100000, Null, 100)>>
DefaultTermBonuses ==
  <<TermBonus(c_3months, 10), TermBonus(c_6months, 20), TermBonus(c_12months, 30)>>
DefaultTiers == <<Tier(0, 5, 50), Tier(5, 10, 100), Tier(10, Null, 150)>>

ScenarioABrackets == <<Bracket(0, 50000, 50), Bracket(50000, Null, 75)>>
ScenarioDBrackets == <<Bracket(1000, Null, 50)>>
\* not sorted, overlapping on [10000, 20000)
UnsortedBrackets == <<Bracket(10000, Null, 100), Bracket(0, 20000, 50)>>
\* ends at 20000: revenues 10000 and 20000 sit on a max
BoundedBrackets == <<Bracket(0, 10000, 50), Bracket(10000, 20000, 75)>>

\* nothing between 10000 and 20000
GapBrackets == <<Bracket(0, 10000, 50), Bracket(20000, Null, 75)>>

\* two entries for the same term, differing in case
DuplicateTermBonuses == <<TermBonus(c_6Months, 20), TermBonus(c_6months, 50)>>

M1 == <<MultBracket(0, 20000, 10), MultBracket(20000, Null, 15)>>
M2 == <<MultBracket(10000, Null, 20)>>
M3 == <<MultBracket(0, Null, 12), MultBracket(0, 20000, 20)>>
M4 == <<MultBracket(0, 10000, 5), MultBracket(10000, 60000, 30)>>
M5 == <<MultBracket(0, 10000, 20), MultBracket(10000, Null, 15)>>

ScenarioBTiers == <<Tier(0, 5, 50), Tier(5, 10, 100)>>
SmallTiers == <<Tier(0, 3, 50), Tier(3, Null, 100)>>
GapTiers == <<Tier(2, 3, 100)>>
OverlapTiers == <<Tier(2, Null, 100), Tier(1, Null, 50)>>
RateTiers == <<RateTier(0, 2, 50), RateTier(2, Null, 100)>>

BaseSettings ==
  [ae_brackets |-> DefaultAeBrackets,
   ae_payment_term_bonuses |-> DefaultTermBonuses,
   ae_revenue_multiplier_brackets |-> <<>>,
   sdr_meeting_tiers |-> DefaultTiers,
   sdr_closed_won_percent |-> 50,
   sdr_revenue_multiplier_brackets |-> <<>>,
   marketing_same_as_sdr |-> TRUE,
   marketing_inbound_percent |-> 30,
   marketing_revenue_multiplier_brackets |-> <<>>,
   absent |-> {}]

\* a multiplier column: a table, or "absent" for a row that lacks the column
MultChoices == {"absent", "empty", "M1", "M2", "M3", "M4", "M5"}

MultTable(c) ==
  CASE c = "M1" -> M1 [] c = "M2" -> M2 [] c = "M3" -> M3 [] c = "M4" -> M4
    [] c = "M5" -> M5
    [] OTHER -> <<>>

WithMultipliers(st, a, s, m) ==
  [st EXCEPT !.ae_revenue_multiplier_brackets = MultTable(a),
             !.sdr_revenue_multiplier_brackets = MultTable(s),
             !.marketing_revenue_multiplier_brackets = MultTable(m),
             !.absent = {n \in {"ae_revenue_multiplier_brackets"} : a = "absent"}
                        \cup {n \in {"sdr_revenue_multiplier_brackets"} : s = "absent"}
                        \cup {n \in {"marketing_revenue_multiplier_brackets"} : m = "absent"}]

Input(tm, ds, ms, st) == [team |-> tm, deals |-> ds, meetings |-> ms, settings |-> st]

\* AE reps: deals against bracket, multiplier and term-bonus tables
AeInputs ==
  {Input(tm, ds, <<Meeting(371)>>,
         [WithMultipliers(BaseSettings, c[2], "M2", "M3")
            EXCEPT !.ae_brackets = c[1], !.ae_payment_term_bonuses = c[3]]) :
     tm \in {t_AE, t_MarketingAE},
     ds \in SeqsUpTo(AeDealPool, MaxDeals),
     c \in {<<DefaultAeBrackets, "M1", DefaultTermBonuses>>,
            <<DefaultAeBrackets, "absent", DuplicateTermBonuses>>,
            <<ScenarioABrackets, "M2", DefaultTermBonuses>>,
            <<ScenarioDBrackets, "empty", DefaultTermBonuses>>,
            <<UnsortedBrackets, "M5", DuplicateTermBonuses>>,
            <<BoundedBrackets, "empty", DefaultTermBonuses>>,
            <<BoundedBrackets, "M4", <<>>>>,
            <<GapBrackets, "empty", DefaultTermBonuses>>,
            <<<<>>, "M1", DefaultTermBonuses>>}}

\* SDR and Marketing reps: deals against the multiplier tables
SdrInputs ==
  {Input(r[1], ds, <<Meeting(371), Meeting(378)>>,
         [WithMultipliers(BaseSettings, "M1", c[1], c[2])
            EXCEPT !.marketing_same_as_sdr = r[2]]) :
     r \in {<<t_SDR, TRUE>>, <<t_Marketing, TRUE>>, <<t_Marketing, FALSE>>},
     ds \in SeqsUpTo(SdrDealPool, MaxDeals),
     c \in {<<"M1", "M2">>, <<"absent", "M1">>, <<"empty", "absent">>,
            <<"M3", "M5">>}}

\* meetings against the tier tables
MeetingInputs ==
  {Input(tm, <<D2>>, ms, [BaseSettings EXCEPT !.sdr_meeting_tiers = tiers]) :
     tm \in {t_SDR, t_Marketing},
     ms \in MeetingLists,
     tiers \in {SmallTiers, GapTiers, OverlapTiers, RateTiers}}

\* every team string, with multiplier tables that tell the teams apart
TeamInputs ==
  {Input(tm, <<D1, D2>>, <<Meeting(371), Meeting(378)>>,
         [WithMultipliers(BaseSettings, "M1", "M2", "M3")
            EXCEPT !.marketing_same_as_sdr = same]) :
     tm \in Teams, same \in BOOLEAN}

\* a settings object that lacks one of the rule tables (the columns of the
\* settings table are NOT NULL, so only a direct caller can pass one)
MissingTableInputs ==
  {Input(tm, ds, ms, [BaseSettings EXCEPT ![name] = <<>>, !.absent = {name}]) :
     tm \in {t_AE, t_SDR, t_Marketing},
     ds \in {<<>>, <<D2>>, <<D1>>},
     ms \in {<<>>, <<Meeting(371)>>},
     name \in {"ae_brackets", "ae_payment_term_bonuses", "sdr_meeting_tiers"}}

\* three meetings in week 2 and six in week 3 of 2025
ScenarioBMeetings ==
  <<Meeting(371), Meeting(378), Meeting(378), Meeting(371), Meeting(378),
    Meeting(378), Meeting(377), Meeting(378), Meeting(378)>>

ScenarioA ==
  Input(t_AE, <<D1>>, <<>>,
        [BaseSettings EXCEPT !.ae_brackets = ScenarioABrackets,
                             !.ae_payment_term_bonuses = <<TermBonus(c_6months, 20)>>])
ScenarioB ==
  Input(t_SDR, <<D4, D7>>, ScenarioBMeetings,
        [BaseSettings EXCEPT !.sdr_meeting_tiers = ScenarioBTiers])
ScenarioC ==
  Input(t_Marketing, <<D2, D9>>, <<>>,
        [BaseSettings EXCEPT !.marketing_same_as_sdr = FALSE])
ScenarioD ==
  Input(t_AE, <<D10>>, <<>>, [BaseSettings EXCEPT !.ae_brackets = ScenarioDBrackets])

ScenarioInputs ==
  {ScenarioA, ScenarioB, ScenarioC, ScenarioD,
   [ScenarioB EXCEPT !.team = t_Marketing]}

Inputs ==
  AeInputs \cup SdrInputs \cup MeetingInputs \cup TeamInputs \cup ScenarioInputs

Variants == {"lib", "edge", "monthly"}

(***************************************************************************)
(* The state machine                                                       *)
(***************************************************************************)
\* no monthly run, no request and no page: the engine is called directly
NoCron ==
  [owners |-> <<>>, hasSettings |-> TRUE, next |-> 1, results |-> <<>>,
   runLogs |-> <<>>, statements |-> <<>>, response |-> "none"]

NoHandler ==
  [dealsData |-> <<>>, associations |-> <<>>, deals |-> <<>>, next |-> 1,
   meetings |-> <<>>, pc |-> "idle"]

\* the page as it is mounted: no rep selected, results = null, no mutation
\* pending; an empty sequence stands for null / no request
NoPage ==
  [selectedRep |-> "", calculate |-> <<>>, testLastMonth |-> <<>>,
   started |-> 0, succeeded |-> {}, results |-> <<>>, synced |-> <<>>]

CallersIdle == cron = NoCron /\ handler = NoHandler /\ page = NoPage

Init ==
  /\ \E in \in Inputs :
       /\ team = in.team
       /\ deals = in.deals
       /\ meetings = in.meetings
       /\ settings = in.settings
  /\ variant = "none"
  /\ result = NoResult
  /\ calls = 0
  /\ CallersIdle

\* CallLib with a counter of earlier invocations leaking into the result
CallLib_leftoverState ==
  /\ result.status = "none" /\ calls < MaxCalls
  /\ variant \in {"none", "lib"}
  /\ variant' = "lib"
  /\ result' = LET r == calculateCommission_lib(team, deals, meetings, settings)
                IN [r EXCEPT !.totalMeetings = @ + calls]
  /\ calls' = calls + 1
  /\ UNCHANGED <<team, deals, meetings, settings, cron, handler, page>>

\* a caller invokes src/lib calculateCommission for the rep at hand
CallLib ==
  /\ result.status = "none" /\ calls < MaxCalls
  /\ variant \in {"none", "lib"}
  /\ variant' = "lib"
  /\ result' = calculateCommission_lib(team, deals, meetings, settings)
  /\ calls' = calls + 1
  /\ UNCHANGED <<team, deals, meetings, settings, cron, handler, page>>

\* CallEdge with the closed-won filter applied to the caller's list
CallEdge_filtersInPlace ==
  /\ result.status = "none" /\ calls < MaxCalls
  /\ variant \in {"none", "edge"}
  /\ variant' = "edge"
  /\ result' = calculateCommission_edge(team, deals, meetings, settings)
  /\ calls' = calls + 1
  /\ deals' = closedWonDeals(deals)
  /\ UNCHANGED <<team, meetings, settings, cron, handler, page>>

\* the calculate-commission handler invokes its calculateCommission
CallEdge ==
  /\ result.status = "none" /\ calls < MaxCalls
  /\ variant \in {"none", "edge"}
  /\ variant' = "edge"
  /\ result' = calculateCommission_edge(team, deals, meetings, settings)
  /\ calls' = calls + 1
  /\ UNCHANGED <<team, deals, meetings, settings, cron, handler, page>>

\* the monthly run invokes its calculateCommission
CallMonthly ==
  /\ result.status = "none" /\ calls < MaxCalls
  /\ variant \in {"none", "monthly"}
  /\ variant' = "monthly"
  /\ result' = calculateCommission_monthly(team, deals, meetings, settings)
  /\ calls' = calls + 1
  /\ UNCHANGED <<team, deals, meetings, settings, cron, handler, page>>

\* the reps a run goes on to after its first
NextRepInputs == {ScenarioA, ScenarioB, ScenarioC}

\* the caller turns to the next rep (the next owner of the monthly loop, the
\* next request of a handler): new inputs, no result yet
NextRep ==
  /\ result.status # "none"
  /\ \E in \in NextRepInputs :
       /\ team' = in.team
       /\ deals' = in.deals
       /\ meetings' = in.meetings
       /\ settings' = in.settings
  /\ result' = NoResult
  /\ UNCHANGED <<variant, calls, cron, handler, page>>

Next == CallLib \/ CallEdge \/ CallMonthly \/ NextRep

Spec == Init /\ [][Next]_vars

\* a deal record without amount, and one whose amount is NaN
D11 == Deal(Undefined, Str(c_ClosedWon), Str(c_Inbound), Str(c_6months))
D12 == Deal(NaN, Str(c_ClosedWon), Str(c_outbound), Missing)

\* deal lists that hold such a record (the handlers never build one: they map
\* amount through parseFloat(...) || 0; a direct caller of the engine can)
MalformedInputs ==
  {Input(tm, ds, ms, [BaseSettings EXCEPT !.marketing_same_as_sdr = same]) :
     tm \in {t_AE, t_SDR, t_Marketing},
     ds \in {<<D11>>, <<D12>>, <<D2, D11>>, <<D12, D1>>},
     ms \in {<<>>, <<Meeting(371)>>},
     same \in BOOLEAN}

InitMalformed ==
  /\ \E in \in MalformedInputs :
       /\ team = in.team
       /\ deals = in.deals
       /\ meetings = in.meetings
       /\ settings = in.settings
  /\ variant = "none"
  /\ result = NoResult
  /\ calls = 0
  /\ CallersIdle

SpecMalformed == InitMalformed /\ [][Next]_vars

InitMissingTable ==
  /\ \E in \in MissingTableInputs :
       /\ team = in.team
       /\ deals = in.deals
       /\ meetings = in.meetings
       /\ settings = in.settings
  /\ variant = "none"
  /\ result = NoResult
  /\ calls = 0
  /\ CallersIdle

SpecMissingTable == InitMissingTable /\ [][Next]_vars

\* a deal of src/lib's Deal type: deal_channel, and no property named channel
LibDeal(a, stage, channel, terms) ==
  [amount |-> a, dealstage |-> stage, deal_channel |-> channel, channel |-> Missing,
   payment_terms |-> terms]

L1 == LibDeal(10000, Str(c_ClosedWon), Str(c_Inbound), Missing)
L2 == LibDeal(60000, Str(c_ClosedWon), Str(c_outbound), Str(c_6months))
L3 == LibDeal(5000, Str(c_closedwon), Str(s_inbound), Str(c_12months))

\* the same arguments given to each copy, the deals typed as src/lib types them
LibDealInputs ==
  {Input(tm, ds, ms, [st EXCEPT !.marketing_same_as_sdr = same]) :
     tm \in {t_AE, t_SDR, t_Marketing},
     ds \in SeqsUpTo({L1, L2, L3}, MaxDeals),
     ms \in {<<>>, <<Meeting(371), Meeting(378)>>},
     st \in {BaseSettings, WithMultipliers(BaseSettings, "M1", "M2", "M3")},
     same \in BOOLEAN}

InitLibDeals ==
  /\ \E in \in LibDealInputs :
       /\ team = in.team
       /\ deals = in.deals
       /\ meetings = in.meetings
       /\ settings = in.settings
  /\ variant = "none"
  /\ result = NoResult
  /\ calls = 0
  /\ CallersIdle

SpecLibDeals == InitLibDeals /\ [][Next]_vars

(***************************************************************************)
(* The monthly run: the owner loop of src/unnamed/part_001                 *)
(***************************************************************************)
MaxOwners == 3

\* the engine's variables while a caller is modelled on its own
EngineIdle ==
  /\ team = t_AE
  /\ deals = <<>>
  /\ meetings = <<>>
  /\ settings = BaseSettings
  /\ variant = "none"
  /\ result = NoResult
  /\ calls = 0

\* a HubSpot owner, with what the two searches return for them: the deals
\* that pass the team filter and the qualifying meetings
Owner(email, teamName, ds, ms) ==
  [email |-> email, teamName |-> teamName, deals |-> ds, meetings |-> ms]

OwnerPool ==
  { Owner("ae@", Str(t_AE), <<D1>>, <<>>),
    Owner("sdr@", Str(t_SDR), <<D2>>, <<Meeting(7)>>),
    Owner("ops@", Str(t_Sales), <<D9>>, <<>>),
    Owner("new@", Missing, <<>>, <<>>) }

\* the owners list holds each owner once
OwnerLists ==
  {os \in SeqsUpTo(OwnerPool, MaxOwners) :
     \A i, j \in DOMAIN os : os[i] = os[j] => i = j}

\* const team = owner.teams?.[0]?.name || 'AE'
teamOf(owner) == IF Truthy(owner.teamName) THEN owner.teamName.s ELSE t_AE

ownerIsSDR(owner) == includes(toLowerCase(teamOf(owner)), s_sdr)

\* meetings are fetched for an SDR only
meetingsOf(owner) == IF ownerIsSDR(owner) THEN owner.meetings ELSE <<>>

\* settings = (await settingsResponse.json())[0] is undefined when the table
\* has no row; calculateCommission then throws at its first read of settings,
\* which a team matching none of the keywords never reaches
computeThrows(owner) ==
  LET lower == toLowerCase(teamOf(owner))
  IN IF cron.hasSettings
       THEN calculateCommission_monthly(teamOf(owner), owner.deals,
                                        meetingsOf(owner), BaseSettings).status = "threw"
       ELSE \/ includes(lower, s_ae)
            \/ includes(lower, s_sdr)
            \/ includes(lower, s_marketing)

commissionResultOf(owner) ==
  calculateCommission_monthly(teamOf(owner), owner.deals, meetingsOf(owner),
                              BaseSettings)

\* the awaits of the try block that can reject, and the call that can throw
FailurePoints(owner) ==
  {"dealsFetch"}
    \cup (IF ownerIsSDR(owner) THEN {"meetingsFetch"} ELSE {})
    \cup (IF computeThrows(owner) THEN {"calculate"} ELSE {"statementPost", "logPost"})

Statement(owner) ==
  [owner |-> owner.email,
   deals_commission |-> commissionResultOf(owner).totalCommission]

\* the statement was already written when the run-log POST rejects
statementsAfterFailure(owner, at) ==
  IF at = "logPost" THEN Append(cron.statements, Statement(owner))
  ELSE cron.statements

InitCron ==
  /\ EngineIdle
  /\ \E os \in OwnerLists, b \in BOOLEAN :
       cron = [NoCron EXCEPT !.owners = os, !.hasSettings = b]
  /\ handler = NoHandler
  /\ page = NoPage

\* one pass of the loop body without an exception; the run-log POST is not
\* checked for its HTTP status, so the row may or may not have been stored
OwnerSucceeds ==
  /\ cron.response = "none"
  /\ cron.next \in DOMAIN cron.owners
  /\ LET owner == cron.owners[cron.next]
     IN /\ ~computeThrows(owner)
        /\ \E stored \in BOOLEAN :
             cron' = [cron EXCEPT
               !.statements = Append(@, Statement(owner)),
               !.runLogs = IF stored
                             THEN Append(@, [rep_name |-> owner.email,
                                             team |-> teamOf(owner),
                                             success |-> TRUE])
                             ELSE @,
               !.results = Append(@, [owner |-> owner.email, status |-> "success"]),
               !.next = @ + 1]
  /\ UNCHANGED <<team, deals, meetings, settings, variant, result, calls,
                 handler, page>>

\* an exception in the try block, and the catch block's run-log POST resolves
OwnerFails ==
  /\ cron.response = "none"
  /\ cron.next \in DOMAIN cron.owners
  /\ LET owner == cron.owners[cron.next]
     IN \E at \in FailurePoints(owner), stored \in BOOLEAN :
          cron' = [cron EXCEPT
            !.statements = statementsAfterFailure(owner, at),
            !.runLogs = IF stored
                          THEN Append(@, [rep_name |-> owner.email,
                                          team |-> <<"U","n","k","n","o","w","n">>,
                                          success |-> FALSE])
                          ELSE @,
            !.results = Append(@, [owner |-> owner.email, status |-> "error"]),
            !.next = @ + 1]
  /\ UNCHANGED <<team, deals, meetings, settings, variant, result, calls,
                 handler, page>>

\* an exception in the try block, and the catch block's own await rejects:
\* the exception leaves the loop and reaches the handler's outer catch
ErrorLogRejects ==
  /\ cron.response = "none"
  /\ cron.next \in DOMAIN cron.owners
  /\ LET owner == cron.owners[cron.next]
     IN \E at \in FailurePoints(owner) :
          cron' = [cron EXCEPT
            !.statements = statementsAfterFailure(owner, at),
            !.response = "error500"]
  /\ UNCHANGED <<team, deals, meetings, settings, variant, result, calls,
                 handler, page>>

\* the loop is through: { success: true, results }
Respond ==
  /\ cron.response = "none"
  /\ cron.next = Len(cron.owners) + 1
  /\ cron' = [cron EXCEPT !.response = "ok"]
  /\ UNCHANGED <<team, deals, meetings, settings, variant, result, calls,
                 handler, page>>

NextCron == OwnerSucceeds \/ OwnerFails \/ ErrorLogRejects \/ Respond

SpecCron == InitCron /\ [][NextCron]_vars

(***************************************************************************)
(* calculate-commission: the handler collects an SDR's meetings            *)
(* (src/supabase/functions/calculate-commission/index.ts, 203-292)         *)
(***************************************************************************)
MaxRecords == 3

\* the properties of a deal record of the CRM search; sdr tells whether
\* sdr_sde names the rep the request is for
DealProperties(owner, amount, closedate, channel, sdr) ==
  [hubspot_owner_id |-> owner, amount |-> amount, closedate |-> closedate,
   channel |-> channel, sdr |-> sdr]

c_Outbound == <<"O","u","t","b","o","u","n","d">>

PropertiesPool ==
  { DealProperties("o1", 5000, 10, Str(c_outbound), TRUE),
    DealProperties("o2", 700, 12, Str(c_Outbound), TRUE),
    DealProperties("o1", Undefined, 10, Str(c_outbound), TRUE),
    DealProperties("o2", 900, 12, Str(c_Inbound), TRUE) }

\* dealsData.results: the i-th record has id i
DealsDataOf(ps) == [i \in DOMAIN ps |-> [id |-> i, properties |-> ps[i]]]

\* the meetings of the CRM: start day, type and outcome qualify or not
CrmMeetingIds == {"m1", "m2", "m3", "m4"}
CrmMeeting(id) ==
  CASE id = "m1" -> [start |-> 7, qualifies |-> TRUE]
    [] id = "m2" -> [start |-> 8, qualifies |-> TRUE]
    [] id = "m3" -> [start |-> 9, qualifies |-> FALSE]
    [] OTHER     -> [start |-> 371, qualifies |-> TRUE]

\* the requested period, in days
PeriodStart == 0
PeriodEnd == 30

\* the meetings associated with a deal: each meeting with one deal, or one
\* meeting with two deals
AssociationTables ==
  { [id \in 1..(MaxRecords + 1) |->
       CASE id = 1 -> <<"m1">> [] id = 2 -> <<"m2", "m3">> [] id = 3 -> <<"m4">>
         [] OTHER -> <<>>],
    [id \in 1..(MaxRecords + 1) |->
       CASE id = 1 -> <<"m1", "m2">> [] id = 2 -> <<"m1">> [] OTHER -> <<>>] }

\* parseFloat(d.properties.amount)
parseFloat(a) == IF a = Undefined THEN NaN ELSE a

\* Step 1: the mapped deal, amount: parseFloat(...) || 0 (no id is kept)
mappedDeal(record) ==
  [hubspot_owner_id |-> record.properties.hubspot_owner_id,
   amount |-> IF parseFloat(record.properties.amount) \in {NaN, 0}
                THEN 0 ELSE record.properties.amount,
   closedate |-> record.properties.closedate,
   channel |-> record.properties.channel,
   sdr |-> record.properties.sdr]

RECURSIVE mapDeals(_)
mapDeals(records) ==
  IF records = <<>> THEN <<>>
  ELSE Append(mapDeals(SubSeq(records, 1, Len(records) - 1)),
              mappedDeal(records[Len(records)]))

assignedToSDR(d) == d.sdr

\* d.assignedTo.includes('SDR') && d.channel?.toLowerCase() === 'outbound'
isSdrOutbound(d) == assignedToSDR(d) /\ OptEqualsLower(d.channel, c_outbound)

sdrOutboundDeals(ds) == SelectSeq(ds, isSdrOutbound)

\* dealsData.results?.find(...): the first record with the deal's owner,
\* amount and close date; 0 when there is none (NaN === 0 is false)
dealRecordIndex(records, deal) ==
  LET hits == {i \in DOMAIN records :
                 /\ records[i].properties.hubspot_owner_id = deal.hubspot_owner_id
                 /\ parseFloat(records[i].properties.amount) # NaN
                 /\ parseFloat(records[i].properties.amount) = deal.amount
                 /\ records[i].properties.closedate = deal.closedate}
  IN IF hits = {} THEN 0 ELSE CHOOSE i \in hits : \A j \in hits : i <= j

\* the meeting passes the type, outcome and date-range tests
qualifyingInRange(id) ==
  /\ CrmMeeting(id).qualifies
  /\ CrmMeeting(id).start >= PeriodStart
  /\ CrmMeeting(id).start <= PeriodEnd

RECURSIVE pushMeetings(_, _, _, _)
\* for (const meetingId of meetingIds): a meeting whose fetch is not ok is
\* skipped; meetingId is kept beside the pushed fields to tell where an entry
\* came from
pushMeetings(list, meetingIds, okIds, dealId) ==
  IF meetingIds = <<>> THEN list
  ELSE LET id == Head(meetingIds)
           next == IF id \in okIds /\ qualifyingInRange(id)
                     THEN Append(list, [timestamp |-> CrmMeeting(id).start,
                                        dealId |-> dealId, meetingId |-> id])
                     ELSE list
       IN pushMeetings(next, Tail(meetingIds), okIds, dealId)

InitHandler ==
  /\ EngineIdle
  /\ cron = NoCron
  /\ page = NoPage
  /\ \E ps \in SeqsUpTo(PropertiesPool, MaxRecords), assoc \in AssociationTables :
       handler = [dealsData |-> DealsDataOf(ps), associations |-> assoc,
                  deals |-> <<>>, next |-> 1, meetings |-> <<>>, pc |-> "fetched"]

\* Steps 1-4 for team SDR: map the records and keep the deals attributed to
\* the SDR
ClassifyDeals ==
  /\ handler.pc = "fetched"
  /\ handler' = [handler EXCEPT
       !.deals = SelectSeq(mapDeals(handler.dealsData), assignedToSDR),
       !.pc = "collect"]
  /\ UNCHANGED <<team, deals, meetings, settings, variant, result, calls,
                 cron, page>>

\* one pass of for (const deal of sdrOutboundDeals)
CollectDealMeetings ==
  /\ handler.pc = "collect"
  /\ handler.next \in DOMAIN sdrOutboundDeals(handler.deals)
  /\ LET deal == sdrOutboundDeals(handler.deals)[handler.next]
         k == dealRecordIndex(handler.dealsData, deal)
     IN IF k = 0
          THEN handler' = [handler EXCEPT !.next = @ + 1]
          ELSE LET dealId == handler.dealsData[k].id
                   meetingIds == handler.associations[dealId]
               IN \E associationsOk \in BOOLEAN,
                     okIds \in SUBSET {meetingIds[i] : i \in DOMAIN meetingIds} :
                    handler' = [handler EXCEPT
                      !.meetings = IF associationsOk
                                     THEN pushMeetings(@, meetingIds, okIds, dealId)
                                     ELSE @,
                      !.next = @ + 1]
  /\ UNCHANGED <<team, deals, meetings, settings, variant, result, calls,
                 cron, page>>

\* a fetch of the loop rejects: the catch logs the error and the handler goes
\* on with the meetings pushed so far
CollectRejects ==
  /\ handler.pc = "collect"
  /\ handler.next \in DOMAIN sdrOutboundDeals(handler.deals)
  /\ LET deal == sdrOutboundDeals(handler.deals)[handler.next]
         k == dealRecordIndex(handler.dealsData, deal)
     IN /\ k # 0
        /\ LET dealId == handler.dealsData[k].id
               meetingIds == handler.associations[dealId]
           IN \E n \in 0..Len(meetingIds) :
                handler' = [handler EXCEPT
                  !.meetings = pushMeetings(@, SubSeq(meetingIds, 1, n),
                                            {meetingIds[i] : i \in 1..n}, dealId),
                  !.pc = "done"]
  /\ UNCHANGED <<team, deals, meetings, settings, variant, result, calls,
                 cron, page>>

\* the loop is through; meetings is what calculateCommission will be given
FinishCollect ==
  /\ handler.pc = "collect"
  /\ handler.next = Len(sdrOutboundDeals(handler.deals)) + 1
  /\ handler' = [handler EXCEPT !.pc = "done"]
  /\ UNCHANGED <<team, deals, meetings, settings, variant, result, calls,
                 cron, page>>

NextHandler == ClassifyDeals \/ CollectDealMeetings \/ CollectRejects \/ FinishCollect

SpecHandler == InitHandler /\ [][NextHandler]_vars

(***************************************************************************)
(* The Run Commissions page (src/src/pages/RunCommissions.tsx)             *)
(***************************************************************************)
MaxRequests == 3

Reps == {"rep1", "rep2"}

\* a calculate-commission request in flight; no numbers the requests in the
\* order they were started
Request(no, repId, period) == [no |-> no, repId |-> repId, period |-> period]

\* response.data: the result for the request's rep and period
dataOf(request) ==
  [repId |-> request.repId, period |-> request.period, request |-> request.no]

InitPage ==
  /\ EngineIdle
  /\ cron = NoCron
  /\ handler = NoHandler
  /\ page = NoPage

\* onValueChange of the rep select
SelectRep ==
  /\ \E r \in Reps : page' = [page EXCEPT !.selectedRep = r]
  /\ UNCHANGED <<team, deals, meetings, settings, variant, result, calls,
                 cron, handler>>

\* 'Run Calculation': disabled={!selectedRep || calculateMutation.isPending}
ClickRunCalculation ==
  /\ page.selectedRep # ""
  /\ page.calculate = <<>>
  /\ page.started < MaxRequests
  /\ page' = [page EXCEPT
       !.calculate = <<Request(page.started + 1, page.selectedRep, "selected")>>,
       !.started = @ + 1]
  /\ UNCHANGED <<team, deals, meetings, settings, variant, result, calls,
                 cron, handler>>

\* 'Test Last Month': disabled={!selectedRep || testLastMonthMutation.isPending}
ClickTestLastMonth ==
  /\ page.selectedRep # ""
  /\ page.testLastMonth = <<>>
  /\ page.started < MaxRequests
  /\ page' = [page EXCEPT
       !.testLastMonth = <<Request(page.started + 1, page.selectedRep, "lastMonth")>>,
       !.started = @ + 1]
  /\ UNCHANGED <<team, deals, meetings, settings, variant, result, calls,
                 cron, handler>>

\* calculateMutation.onSuccess: setResults(data)
CalculateSuccess ==
  /\ page.calculate # <<>>
  /\ page' = [page EXCEPT
       !.results = <<dataOf(page.calculate[1])>>,
       !.succeeded = @ \cup {page.calculate[1].no},
       !.calculate = <<>>]
  /\ UNCHANGED <<team, deals, meetings, settings, variant, result, calls,
                 cron, handler>>

\* calculateMutation.onError: a toast, results stay
CalculateError ==
  /\ page.calculate # <<>>
  /\ page' = [page EXCEPT !.calculate = <<>>]
  /\ UNCHANGED <<team, deals, meetings, settings, variant, result, calls,
                 cron, handler>>

\* testLastMonthMutation.onSuccess: setResults(data)
TestLastMonthSuccess ==
  /\ page.testLastMonth # <<>>
  /\ page' = [page EXCEPT
       !.results = <<dataOf(page.testLastMonth[1])>>,
       !.succeeded = @ \cup {page.testLastMonth[1].no},
       !.testLastMonth = <<>>]
  /\ UNCHANGED <<team, deals, meetings, settings, variant, result, calls,
                 cron, handler>>

\* testLastMonthMutation.onError
TestLastMonthError ==
  /\ page.testLastMonth # <<>>
  /\ page' = [page EXCEPT !.testLastMonth = <<>>]
  /\ UNCHANGED <<team, deals, meetings, settings, variant, result, calls,
                 cron, handler>>

\* 'Sync to HubSpot' (rendered when results is set): the body is results;
\* beside the payload, the number of the request started last at the click
\* and whether a request was still pending
ClickSync ==
  /\ page.results # <<>>
  /\ page' = [page EXCEPT
       !.synced = <<[payload |-> page.results[1],
                     latest |-> page.started,
                     pending |-> page.calculate # <<>> \/ page.testLastMonth # <<>>]>>]
  /\ UNCHANGED <<team, deals, meetings, settings, variant, result, calls,
                 cron, handler>>

NextPage ==
  \/ SelectRep
  \/ ClickRunCalculation
  \/ ClickTestLastMonth
  \/ CalculateSuccess
  \/ CalculateError
  \/ TestLastMonthSuccess
  \/ TestLastMonthError
  \/ ClickSync

SpecPage == InitPage /\ [][NextPage]_vars

Returned == result.status = "ok"

TypeOK ==
  /\ variant \in Variants \cup {"none"}
  /\ result.status \in {"none", "ok", "threw"}
  /\ result.error \in {"none", "TypeError"}
  /\ calls \in 0..MaxCalls
  /\ Returned => result = calculateCommission(variant, team, deals, meetings, settings)

(***************************************************************************)
(* Properties                                                              *)
(***************************************************************************)
InputIs(in) ==
  /\ team = in.team
  /\ deals = in.deals
  /\ meetings = in.meetings
  /\ settings = in.settings

\* the call made in the current state, on other inputs
Recompute(tm, ds, ms, st) == calculateCommission(variant, tm, ds, ms, st)

RECURSIVE SumOver(_, _)
\* the sum of f[i] over the indices i in S
SumOver(f, S) ==
  IF S = {} THEN 0
  ELSE LET i == CHOOSE x \in S : TRUE IN Plus(f[i], SumOver(f, S \ {i}))

\* the stage text holds both words, in any case
CountsAsRevenue(d) ==
  /\ d.dealstage.def
  /\ includes(toLowerCase(d.dealstage.s), s_closed)
  /\ includes(toLowerCase(d.dealstage.s), s_won)

RecognisedRevenue(ds) ==
  SumOver([i \in DOMAIN ds |-> ds[i].amount],
          {i \in DOMAIN ds : CountsAsRevenue(ds[i])})

\* ds without its i-th deal
WithoutDeal(ds, i) == SubSeq(ds, 1, i - 1) \o SubSeq(ds, i + 1, Len(ds))

\* entry's half-open range holds value (entry bounds in whole units, value
\* in 1/scale units)
Holds(entry, value, scale) ==
  /\ value >= entry.min * scale
  /\ entry.max # Null => value < entry.max * scale

\* the first entry in list order whose range holds value, 0 if none does
FirstMatch(table, value, scale) ==
  IF \E i \in DOMAIN table : Holds(table[i], value, scale)
  THEN CHOOSE i \in DOMAIN table :
         /\ Holds(table[i], value, scale)
         /\ \A j \in 1..(i - 1) : ~Holds(table[j], value, scale)
  ELSE 0

\* C1: whenever calculateCommission returns, totalCommission is
\* dealCommission plus meetingBonus (a NaN summand makes the total NaN)
C1_TotalIsSum ==
  Returned =>
    result.totalCommission = Plus(result.dealCommission, result.meetingBonus)

C1_Witness ==
  /\ Returned
  /\ result.dealCommission > 0
  /\ result.meetingBonus > 0
  /\ result.totalCommission = result.dealCommission + result.meetingBonus

\* C2: totalRevenue is the plain sum of amount over the deals whose stage
\* holds 'closed' and 'won'; a deal that fails the test, has no stage or has
\* amount 0 can be removed without changing it; no multiplier scales it
C2_TotalRevenue ==
  Returned =>
    /\ result.totalRevenue = RecognisedRevenue(deals)
    /\ \A i \in DOMAIN deals :
         (~CountsAsRevenue(deals[i]) \/ deals[i].amount = 0) =>
           Recompute(team, WithoutDeal(deals, i), meetings, settings).totalRevenue
             = result.totalRevenue

C2_Witness ==
  /\ Returned
  /\ result.totalRevenue > 0
  /\ result.adjustedRevenue # result.totalRevenue * 10
  /\ \E i \in DOMAIN deals : ~deals[i].dealstage.def
  /\ \E i \in DOMAIN deals : CountsAsRevenue(deals[i])

\* the term of some entry of the bonus table equals the deal's payment terms,
\* case-insensitively, and the payment terms are not empty
TermListed(d, st) ==
  /\ d.payment_terms.def
  /\ d.payment_terms.s # <<>>
  /\ \E k \in DOMAIN st.ae_payment_term_bonuses :
       toLowerCase(st.ae_payment_term_bonuses[k].term) = toLowerCase(d.payment_terms.s)

\* bonus_percent of the first entry listing the deal's payment terms
TermPercent(d, st) ==
  LET t == st.ae_payment_term_bonuses
      k == CHOOSE k \in DOMAIN t :
             /\ toLowerCase(t[k].term) = toLowerCase(d.payment_terms.s)
             /\ \A j \in 1..(k - 1) :
                  toLowerCase(t[j].term) # toLowerCase(d.payment_terms.s)
  IN t[k].bonus_percent

\* adjustedRevenue x percent / 100 of the first matching bracket
ExpectedBracketPart(adjustedRevenue, st) ==
  LET i == FirstMatch(st.ae_brackets, adjustedRevenue, 10)
  IN IF i = 0 THEN 0 ELSE adjustedRevenue * st.ae_brackets[i].percent

\* the deals that earn a term bonus
TermBonusDeals(ds, st) ==
  {i \in DOMAIN ds : CountsAsRevenue(ds[i]) /\ TermListed(ds[i], st)}

\* sum of amount x bonus_percent / 100 over the deals that earn a term bonus
ExpectedTermPart(ds, st) ==
  SumOver([i \in DOMAIN ds |->
             IF i \in TermBonusDeals(ds, st)
             THEN ds[i].amount * TermPercent(ds[i], st) * 10 ELSE 0],
          TermBonusDeals(ds, st))

\* C3: for team AE, dealCommission is the bracket part on adjustedRevenue
\* plus amount x bonus_percent / 100 of every closed-won deal with a listed
\* payment term; Scenario A gives 5700
C3_AeDealCommission ==
  /\ (Returned /\ team = t_AE) =>
       result.dealCommission =
         ExpectedBracketPart(result.adjustedRevenue, settings)
           + ExpectedTermPart(deals, settings)
  /\ (Returned /\ InputIs(ScenarioA)) =>
       /\ result.totalRevenue = 60000
       /\ result.dealCommission = 5700 * 10000
       /\ result.meetingBonus = 0
       /\ result.totalCommission = 5700 * 10000

\* an AE result where a multiplier applied, a bracket matched, one deal earned
\* a bonus on a term written in another case and another closed-won deal
\* earned none
C3_Witness ==
  /\ Returned /\ team = t_AE
  /\ result.adjustedRevenue # result.totalRevenue * 10
  /\ ExpectedBracketPart(result.adjustedRevenue, settings) > 0
  /\ \E i \in TermBonusDeals(deals, settings) :
       /\ deals[i].amount > 0
       /\ \A k \in DOMAIN settings.ae_payment_term_bonuses :
            settings.ae_payment_term_bonuses[k].term # deals[i].payment_terms.s
  /\ \E i \in DOMAIN deals :
       CountsAsRevenue(deals[i]) /\ i \notin TermBonusDeals(deals, settings)

\* an SDR, or a Marketing rep under marketing_same_as_sdr
SdrLike ==
  team = t_SDR \/ (team = t_Marketing /\ settings.marketing_same_as_sdr)

\* the week buckets of a meetings list and the size of each
Weeks(ms) == {getISOWeek(ms[i].timestamp) : i \in DOMAIN ms}
CountIn(ms, w) == Cardinality({i \in DOMAIN ms : getISOWeek(ms[i].timestamp) = w})

\* sum over the week buckets of the bonus_amount of the first matching tier
FlatBonus(ms, st) ==
  SumOver([w \in Weeks(ms) |->
             LET k == FirstMatch(st.sdr_meeting_tiers, CountIn(ms, w), 1)
             IN IF k = 0 THEN 0 ELSE Money(st.sdr_meeting_tiers[k].bonus_amount)],
          Weeks(ms))

\* C4: in the edge functions, for SDR and SDR-like Marketing, meetingBonus is
\* the sum over the week buckets of the flat bonus_amount of the first tier
\* matching the week's count; Scenario B gives 150
C4_FlatTierBonus ==
  (Returned /\ variant \in {"edge", "monthly"}) =>
    /\ SdrLike => result.meetingBonus = FlatBonus(meetings, settings)
    /\ (InputIs(ScenarioB) \/ InputIs([ScenarioB EXCEPT !.team = t_Marketing])) =>
         result.meetingBonus = 150 * 10000

\* two weeks, one of them holding more meetings than its tier's minimum
C4_Witness ==
  /\ Returned /\ variant \in {"edge", "monthly"} /\ SdrLike
  /\ Cardinality(Weeks(meetings)) = 2
  /\ result.meetingBonus > 0
  /\ \E w \in Weeks(meetings) :
       LET k == FirstMatch(settings.sdr_meeting_tiers, CountIn(meetings, w), 1)
       IN k # 0 /\ CountIn(meetings, w) > settings.sdr_meeting_tiers[k].min + 1

\* the per-meeting rate a tier row carries
RateOf(tier) ==
  IF tier.rate_per_meeting # Undefined THEN tier.rate_per_meeting
  ELSE tier.bonus_amount

\* sum over the week buckets of count x rate of the first matching tier
PerMeetingBonus(ms, st) ==
  SumOver([w \in Weeks(ms) |->
             LET k == FirstMatch(st.sdr_meeting_tiers, CountIn(ms, w), 1)
             IN IF k = 0 THEN 0
                ELSE Money(CountIn(ms, w) * RateOf(st.sdr_meeting_tiers[k]))],
          Weeks(ms))

\* C5: in src/lib, for SDR and SDR-like Marketing, meetingBonus is the sum
\* over the weeks of count x per-meeting rate of the first matching tier; on
\* the Scenario B table (rows carrying bonus_amount) it is 150 + 600 = 750
C5_PerMeetingRate ==
  (Returned /\ variant = "lib" /\ SdrLike) =>
    /\ result.meetingBonus = PerMeetingBonus(meetings, settings)
    /\ InputIs(ScenarioB) => result.meetingBonus = 750 * 10000

AltMeetings == {<<>>, <<Meeting(371)>>, ScenarioBMeetings}

\* C6: for SDR and SDR-like Marketing, dealCommission is adjustedRevenue x
\* sdr_closed_won_percent / 100, the same for every meetings input
C6_SdrDealCommission ==
  (Returned /\ SdrLike) =>
    /\ result.dealCommission = result.adjustedRevenue * settings.sdr_closed_won_percent
    /\ \A ms \in AltMeetings :
         Recompute(team, deals, ms, settings).dealCommission = result.dealCommission

\* revenue, meetings, and no week that matches a tier
C6_Witness ==
  /\ Returned /\ SdrLike
  /\ result.dealCommission > 0
  /\ meetings # <<>>
  /\ result.weeklyBreakdown = <<>>

\* a closed-won deal whose channel is 'inbound' in any case, and nothing else
CountsAsInbound(d) ==
  /\ CountsAsRevenue(d)
  /\ d.deal_channel.def
  /\ toLowerCase(d.deal_channel.s) = s_inbound

InboundRevenue(ds) ==
  SumOver([i \in DOMAIN ds |-> ds[i].amount],
          {i \in DOMAIN ds : CountsAsInbound(ds[i])})

\* the multiplier table a settings row holds under name, empty when the
\* column is missing
TableOrEmpty(st, name) == IF name \in st.absent THEN <<>> ELSE st[name]

\* revenue x multiplier of the first matching bracket, revenue itself when
\* no bracket matches (in tenths)
Scaled(table, revenue) ==
  LET k == FirstMatch(table, revenue, 1)
  IN IF k = 0 THEN revenue * 10 ELSE revenue * table[k].multiplier

MarketingOnly == team = t_Marketing /\ ~settings.marketing_same_as_sdr

\* C7: for Marketing without marketing_same_as_sdr, dealCommission is
\* adjustedInboundRevenue x marketing_inbound_percent / 100, the Marketing
\* multiplier being looked up on the revenue of the closed-won deals whose
\* channel is exactly 'inbound'; a further closed-won deal of another channel
\* raises totalRevenue and leaves dealCommission alone; Scenario C gives 300
C7_MarketingInbound ==
  /\ (Returned /\ MarketingOnly) =>
       /\ result.dealCommission =
            Scaled(TableOrEmpty(settings, "marketing_revenue_multiplier_brackets"),
                   InboundRevenue(deals)) * settings.marketing_inbound_percent
       /\ \A d \in {D1, D7, D9} :
            LET r == Recompute(team, Append(deals, d), meetings, settings)
            IN /\ r.dealCommission = result.dealCommission
               /\ r.totalRevenue = result.totalRevenue + d.amount
  /\ (Returned /\ InputIs(ScenarioC)) =>
       /\ result.totalRevenue = 15000
       /\ result.dealCommission = 300 * 10000

\* inbound revenue and total revenue fall into different multiplier brackets,
\* and one closed-won deal has a channel that only contains 'inbound'
C7_Witness ==
  /\ Returned /\ MarketingOnly
  /\ result.dealCommission > 0
  /\ LET t == TableOrEmpty(settings, "marketing_revenue_multiplier_brackets")
     IN /\ FirstMatch(t, InboundRevenue(deals), 1) # 0
        /\ FirstMatch(t, InboundRevenue(deals), 1) # FirstMatch(t, result.totalRevenue, 1)
  /\ \E i \in DOMAIN deals :
       /\ CountsAsRevenue(deals[i]) /\ ~CountsAsInbound(deals[i])
       /\ deals[i].deal_channel.def
       /\ includes(toLowerCase(deals[i].deal_channel.s), s_inbound)

\* ds with every deal's channel replaced by ch
Rechannel(ds, ch) ==
  [i \in DOMAIN ds |-> [ds[i] EXCEPT !.deal_channel = ch, !.channel = ch]]

\* C8: with marketing_same_as_sdr, a Marketing rep gets the meetingBonus and
\* weeklyBreakdown of an SDR with the same meetings and tiers, dealCommission
\* is adjustedRevenue x sdr_closed_won_percent / 100, and neither
\* marketing_inbound_percent nor the deals' channels change the result
C8_MarketingAsSdr ==
  (Returned /\ team = t_Marketing /\ settings.marketing_same_as_sdr) =>
    /\ LET sdr == Recompute(t_SDR, deals, meetings, settings)
       IN /\ result.meetingBonus = sdr.meetingBonus
          /\ result.weeklyBreakdown = sdr.weeklyBreakdown
    /\ result.dealCommission = result.adjustedRevenue * settings.sdr_closed_won_percent
    /\ \A p \in {0, 100} :
         Recompute(team, deals, meetings,
                   [settings EXCEPT !.marketing_inbound_percent = p]) = result
    /\ \A ch \in {Missing, Str(s_inbound)} :
         Recompute(team, Rechannel(deals, ch), meetings, settings) = result

C8_Witness ==
  /\ Returned /\ team = t_Marketing /\ settings.marketing_same_as_sdr
  /\ result.meetingBonus > 0
  /\ result.dealCommission > 0
  /\ Len(result.weeklyBreakdown) > 1
  /\ \E i \in DOMAIN deals : CountsAsInbound(deals[i]) /\ deals[i].amount > 0

\* the multiplier table of a team
OwnTableName(tm) ==
  CASE tm = t_AE -> "ae_revenue_multiplier_brackets"
    [] tm = t_SDR -> "sdr_revenue_multiplier_brackets"
    [] tm = t_Marketing -> "marketing_revenue_multiplier_brackets"

\* what a tier pays for a week of n meetings in the copy at hand
TierPays(tier, n) ==
  IF variant = "lib" THEN Money(Times(n, tier.rate_per_meeting))
  ELSE IF tier.bonus_amount = Undefined THEN Undefined ELSE Money(tier.bonus_amount)

\* C9: every lookup takes the first entry in list order whose half-open range
\* [min, max) holds the value, a null max being unbounded: the AE bracket
\* reported by src/lib, the multiplier applied to totalRevenue, and the tier
\* paid for each week
C9_FirstMatchLookup ==
  Returned =>
    /\ (variant = "lib" /\ team = t_AE) =>
         LET k == FirstMatch(settings.ae_brackets, result.adjustedRevenue, 10)
         IN result.usedBracketPercent =
              IF k = 0 THEN Undefined ELSE settings.ae_brackets[k].percent
    /\ team \in {t_AE, t_SDR, t_Marketing} =>
         result.adjustedRevenue =
           Scaled(TableOrEmpty(settings, OwnTableName(team)), result.totalRevenue)
    /\ SdrLike =>
         /\ {result.weeklyBreakdown[i].week : i \in DOMAIN result.weeklyBreakdown}
              = {w \in Weeks(meetings) :
                   FirstMatch(settings.sdr_meeting_tiers, CountIn(meetings, w), 1) # 0}
         /\ \A i \in DOMAIN result.weeklyBreakdown :
              LET e == result.weeklyBreakdown[i]
                  k == FirstMatch(settings.sdr_meeting_tiers, e.meetings, 1)
              IN /\ e.meetings = CountIn(meetings, e.week)
                 /\ e.bonus = TierPays(settings.sdr_meeting_tiers[k], e.meetings)

\* totalRevenue sits on the max of a multiplier bracket, and adjustedRevenue
\* lies in two AE brackets of which the one listed first has the larger min
C9_Witness ==
  /\ Returned /\ variant = "lib" /\ team = t_AE
  /\ \E i \in DOMAIN TableOrEmpty(settings, "ae_revenue_multiplier_brackets") :
       /\ settings.ae_revenue_multiplier_brackets[i].max = result.totalRevenue
       /\ FirstMatch(settings.ae_revenue_multiplier_brackets, result.totalRevenue, 1) > i
  /\ Len(settings.ae_brackets) = 2
  /\ Holds(settings.ae_brackets[1], result.adjustedRevenue, 10)
  /\ Holds(settings.ae_brackets[2], result.adjustedRevenue, 10)
  /\ settings.ae_brackets[1].min > settings.ae_brackets[2].min
  /\ settings.ae_brackets[1].max = Null
  /\ result.usedBracketPercent = settings.ae_brackets[1].percent

\* st with the multiplier column name set to the choice c
SetTable(st, name, c) ==
  [st EXCEPT ![name] = MultTable(c),
             !.absent = (@ \ {name}) \cup (IF c = "absent" THEN {name} ELSE {})]

OtherTableNames(tm) ==
  {"ae_revenue_multiplier_brackets", "sdr_revenue_multiplier_brackets",
   "marketing_revenue_multiplier_brackets"} \ {OwnTableName(tm)}

AltChoices == {"absent", "M4"}

\* C10: for team AE, SDR or Marketing, adjustedRevenue is totalRevenue x
\* multiplier of the first bracket of the team's own table matching
\* totalRevenue, totalRevenue itself when that table is missing, empty or
\* without a match; the tables of the other two teams change nothing
C10_TeamMultiplier ==
  (Returned /\ team \in {t_AE, t_SDR, t_Marketing}) =>
    /\ result.adjustedRevenue =
         Scaled(TableOrEmpty(settings, OwnTableName(team)), result.totalRevenue)
    /\ \A a, b \in AltChoices :
         LET n1 == CHOOSE n \in OtherTableNames(team) : TRUE
             n2 == CHOOSE n \in OtherTableNames(team) : n # n1
         IN Recompute(team, deals, meetings,
                      SetTable(SetTable(settings, n1, a), n2, b)) = result

\* an SDR whose revenue is scaled by the SDR table while the AE table would
\* scale it differently
C10_Witness ==
  /\ Returned /\ team = t_SDR
  /\ result.adjustedRevenue # result.totalRevenue * 10
  /\ result.adjustedRevenue #
       Scaled(TableOrEmpty(settings, "ae_revenue_multiplier_brackets"),
              result.totalRevenue)
  /\ result.dealCommission > 0

\* no entry of ae_brackets holds the adjusted revenue of the result
NoBracketMatches ==
  \A i \in DOMAIN settings.ae_brackets :
    ~Holds(settings.ae_brackets[i], result.adjustedRevenue, 10)

\* C11 as stated: for team AE, when adjustedRevenue matches no entry of
\* ae_brackets, dealCommission is 0 and usedBracketPercent is undefined
C11_NoBracketZero ==
  (Returned /\ team = t_AE /\ NoBracketMatches) =>
    /\ result.dealCommission = 0
    /\ result.usedBracketPercent = Undefined

\* C11: for team AE, when adjustedRevenue matches no entry of ae_brackets, the
\* bracket contributes nothing: dealCommission is the sum of the payment-term
\* bonuses alone (0 when no closed-won deal has a listed term, as in
\* Scenario D), and the src/lib result has usedBracketPercent undefined
C11_NoBracketNoBracketPart ==
  (Returned /\ team = t_AE /\ NoBracketMatches) =>
    /\ result.dealCommission = ExpectedTermPart(deals, settings)
    /\ TermBonusDeals(deals, settings) = {} => result.dealCommission = 0
    /\ variant = "lib" => result.usedBracketPercent = Undefined
    /\ InputIs(ScenarioD) =>
         result.totalRevenue = 500 /\ result.dealCommission = 0

\* revenue below the min of the only bracket, and a deal that earns a term bonus
C11_Witness ==
  /\ Returned /\ variant = "lib" /\ team = t_AE /\ NoBracketMatches
  /\ settings.ae_brackets # <<>>
  /\ result.adjustedRevenue > 0
  /\ result.adjustedRevenue < settings.ae_brackets[1].min * 10
  /\ result.dealCommission > 0
  /\ result.usedBracketPercent = Undefined

\* the meetings counted by the entries of a weekly breakdown
BucketedMeetings(wb) == SumOver([i \in DOMAIN wb |-> wb[i].meetings], DOMAIN wb)

\* C12: for SDR and SDR-like Marketing, whatever the tier table, every input
\* meeting is counted in exactly one weeklyBreakdown entry: each week that
\* holds a meeting has one entry, with that week's count, and the entries'
\* meetings sum to totalMeetings
C12_EveryMeetingBucketed ==
  (Returned /\ SdrLike) =>
    /\ \A w \in Weeks(meetings) :
         Cardinality({i \in DOMAIN result.weeklyBreakdown :
                        /\ result.weeklyBreakdown[i].week = w
                        /\ result.weeklyBreakdown[i].meetings = CountIn(meetings, w)}) = 1
    /\ BucketedMeetings(result.weeklyBreakdown) = result.totalMeetings

\* the reversal of a meetings list and its adjacent swaps; the swaps generate
\* every reordering, and every list of the input set is checked against its own
Reorderings(ms) ==
  {[i \in DOMAIN ms |-> ms[Len(ms) + 1 - i]]}
    \cup {[i \in DOMAIN ms |->
             IF i = k THEN ms[k + 1] ELSE IF i = k + 1 THEN ms[k] ELSE ms[i]] :
            k \in 1..(Len(ms) - 1)}

\* C13: the weeklyBreakdown entries come in strictly ascending order of their
\* week key (so no key appears twice), and reordering the meetings list
\* yields the same sequence of entries
C13_BucketsSorted ==
  Returned =>
    /\ \A i, j \in DOMAIN result.weeklyBreakdown :
         i < j => result.weeklyBreakdown[i].week < result.weeklyBreakdown[j].week
    /\ SdrLike =>
         \A ms \in Reorderings(meetings) :
           Recompute(team, deals, ms, settings).weeklyBreakdown = result.weeklyBreakdown

\* two entries, from a list whose first meeting falls in the later week
C13_Witness ==
  /\ Returned /\ SdrLike
  /\ Len(result.weeklyBreakdown) = 2
  /\ Len(meetings) >= 2
  /\ getISOWeek(meetings[1].timestamp) = result.weeklyBreakdown[2].week
  /\ \E i \in DOMAIN meetings :
       getISOWeek(meetings[i].timestamp) = result.weeklyBreakdown[1].week

OrderedDisjoint(t) ==
  /\ \A i \in DOMAIN t : t[i].max # Null => t[i].min < t[i].max
  /\ \A i \in 1..(Len(t) - 1) : t[i].max # Null /\ t[i].max <= t[i + 1].min

PercentsNonDecreasing(t) ==
  \A i, j \in DOMAIN t : i < j => t[i].percent <= t[j].percent

\* each range starts where the one before ends, and the last has no max
GapFreeUnbounded(t) ==
  /\ t # <<>>
  /\ \A i \in 1..(Len(t) - 1) : t[i].max = t[i + 1].min
  /\ t[Len(t)].max = Null

\* closed-won deals without payment terms: adding one changes the revenue and
\* leaves the term bonuses as they are
NoTermDeals == {D2, D9, D10}

\* the AE result for the deals plus one more deal is ordered like the
\* adjusted revenues are
MonotoneInRevenue ==
  \A d \in NoTermDeals :
    LET r == Recompute(team, Append(deals, d), meetings, settings)
    IN /\ r.adjustedRevenue >= result.adjustedRevenue =>
            r.dealCommission >= result.dealCommission
       /\ r.adjustedRevenue <= result.adjustedRevenue =>
            r.dealCommission <= result.dealCommission

\* C15 as stated: for team AE and any ordered disjoint ae_brackets table with
\* non-decreasing percents, gaps and a first min above zero included, a
\* larger adjustedRevenue never yields a smaller dealCommission
C15_MonotoneAnyOrderedTable ==
  (Returned /\ team = t_AE
     /\ OrderedDisjoint(settings.ae_brackets)
     /\ PercentsNonDecreasing(settings.ae_brackets)) => MonotoneInRevenue

\* C15: for team AE, term bonuses held fixed, and an ordered ae_brackets table
\* with non-decreasing percents whose ranges leave no gap and whose last range
\* is unbounded (the first min may lie above zero), a larger adjustedRevenue
\* never yields a smaller dealCommission
C15_MonotoneGapFree ==
  (Returned /\ team = t_AE
     /\ OrderedDisjoint(settings.ae_brackets)
     /\ PercentsNonDecreasing(settings.ae_brackets)
     /\ GapFreeUnbounded(settings.ae_brackets)) => MonotoneInRevenue

\* a further deal lifts the adjusted revenue into the next bracket
C15_Witness ==
  /\ Returned /\ team = t_AE
  /\ OrderedDisjoint(settings.ae_brackets)
  /\ PercentsNonDecreasing(settings.ae_brackets)
  /\ GapFreeUnbounded(settings.ae_brackets)
  /\ result.dealCommission > 0
  /\ \E d \in NoTermDeals :
       LET r == Recompute(team, Append(deals, d), meetings, settings)
       IN /\ r.adjustedRevenue > result.adjustedRevenue
          /\ r.dealCommission > result.dealCommission
          /\ FirstMatch(settings.ae_brackets, r.adjustedRevenue, 10)
               > FirstMatch(settings.ae_brackets, result.adjustedRevenue, 10)
          /\ FirstMatch(settings.ae_brackets, result.adjustedRevenue, 10) > 0

\* a rule table that the branch of the team reads is not in settings
RequiredTableAbsent ==
  \/ /\ team = t_AE
     /\ settings.absent \cap {"ae_brackets", "ae_payment_term_bonuses"} # {}
  \/ SdrLike /\ "sdr_meeting_tiers" \in settings.absent

\* C16: when a rule table required by the team's branch is absent from
\* settings, the invocation ends in a MissingRuleTable error, distinct from
\* other failures, and never in a returned result
C16_MissingRuleTable ==
  (result.status # "none" /\ RequiredTableAbsent) =>
    /\ result.status = "threw"
    /\ result.error = "MissingRuleTable"

\* ds with every missing or non-numeric amount replaced by 0
ZeroedAmounts(ds) ==
  [i \in DOMAIN ds |-> IF ds[i].amount >= 0 THEN ds[i] ELSE [ds[i] EXCEPT !.amount = 0]]

\* C17: a deal whose amount is missing or not a number counts as amount 0 in
\* totalRevenue, in the inbound revenue and in the payment-term bonus: the
\* invocation returns, its result is the one obtained with such amounts set
\* to 0, and totalRevenue, dealCommission and totalCommission are numbers
C17_BadAmountIsZero ==
  (result.status # "none" /\ \E i \in DOMAIN deals : deals[i].amount < 0) =>
    /\ Returned
    /\ result = Recompute(team, ZeroedAmounts(deals), meetings, settings)
    /\ result.totalRevenue >= 0
    /\ result.dealCommission >= 0
    /\ result.totalCommission >= 0

\* the team string holds the keyword, in any case
Mentions(tm, keyword) ==
  \E i \in 0..(Len(tm) - Len(keyword)) :
    \A k \in 1..Len(keyword) : LowerChar[tm[i + k]] = keyword[k]

\* the branch the priority AE, SDR, Marketing assigns to a team string
PriorityBranch(tm, st) ==
  IF Mentions(tm, s_ae) THEN "AE"
  ELSE IF Mentions(tm, s_sdr) THEN "SDR"
  ELSE IF Mentions(tm, s_marketing)
       THEN (IF st.marketing_same_as_sdr THEN "SDR" ELSE "Marketing")
  ELSE "none"

\* C18: the edge-function copies classify the team by case-insensitive
\* containment of 'ae', 'sdr', 'marketing'; a team string takes the one branch
\* of the first keyword it holds in the order AE, SDR, Marketing, and its
\* commission is that branch's; a string holding none takes no branch
C18_TeamPriority ==
  (Returned /\ variant \in {"edge", "monthly"}) =>
    LET b == PriorityBranch(team, settings)
    IN /\ result.branch = b
       /\ b = "AE" =>
            /\ result.dealCommission =
                 ExpectedBracketPart(result.adjustedRevenue, settings)
                   + ExpectedTermPart(deals, settings)
            /\ result.meetingBonus = 0
       /\ b = "SDR" =>
            /\ result.dealCommission =
                 result.adjustedRevenue * settings.sdr_closed_won_percent
            /\ result.meetingBonus = FlatBonus(meetings, settings)
       /\ b = "Marketing" =>
            /\ result.dealCommission =
                 Scaled(TableOrEmpty(settings, "marketing_revenue_multiplier_brackets"),
                        InboundRevenue(deals)) * settings.marketing_inbound_percent
            /\ result.meetingBonus = 0
       /\ b = "none" =>
            /\ result.dealCommission = 0
            /\ result.meetingBonus = 0
            /\ result.weeklyBreakdown = <<>>

\* a team string holding 'marketing' and 'ae', Marketing not paid as SDR: the
\* AE branch is taken, and it pays something else than the Marketing branch
C18_Witness ==
  /\ Returned /\ variant = "edge"
  /\ team = t_MarketingAE
  /\ ~settings.marketing_same_as_sdr
  /\ result.branch = "AE"
  /\ result.dealCommission > 0
  /\ result.dealCommission #
       Scaled(TableOrEmpty(settings, "marketing_revenue_multiplier_brackets"),
              InboundRevenue(deals)) * settings.marketing_inbound_percent

\* C19: an invocation, for any team and by any copy, leaves the deals list
\* and its records, the meetings list and every table of settings as they
\* were before the call
C19_InputsUnchanged ==
  [][result'.status # "none" =>
       /\ team' = team
       /\ deals' = deals
       /\ meetings' = meetings
       /\ settings' = settings]_vars

\* a call has returned for a deals list of which it used only a part, and for
\* meetings it grouped into two weeks
C19_Witness ==
  /\ Returned /\ calls >= 1
  /\ \E i \in DOMAIN deals : ~CountsAsRevenue(deals[i])
  /\ result.totalRevenue > 0
  /\ Len(result.weeklyBreakdown) = 2

\* C20: for team AE, and for Marketing without marketing_same_as_sdr,
\* meetingBonus is 0 and weeklyBreakdown is empty whatever the meetings are,
\* and totalMeetings is the number of meetings passed in
C20_NoMeetingBonus ==
  (Returned /\ (team = t_AE \/ MarketingOnly)) =>
    /\ result.meetingBonus = 0
    /\ result.weeklyBreakdown = <<>>
    /\ result.totalMeetings = Len(meetings)
    /\ \A ms \in AltMeetings :
         LET r == Recompute(team, deals, ms, settings)
         IN /\ r.meetingBonus = 0
            /\ r.weeklyBreakdown = <<>>
            /\ r.totalMeetings = Len(ms)
            /\ r.dealCommission = result.dealCommission

\* a Marketing rep whose meetings would earn an SDR a bonus
C20_Witness ==
  /\ Returned /\ MarketingOnly
  /\ Len(meetings) >= 2
  /\ result.totalMeetings = Len(meetings)
  /\ FlatBonus(meetings, settings) > 0
  /\ result.totalCommission = result.dealCommission
  /\ result.dealCommission > 0

\* the team the containment test classifies a team string as
KeywordClass(tm) ==
  IF Mentions(tm, s_ae) THEN "AE"
  ELSE IF Mentions(tm, s_sdr) THEN "SDR"
  ELSE IF Mentions(tm, s_marketing) THEN "Marketing"
  ELSE "none"

\* the multiplier table of a classified team
ClassTableName(c) ==
  CASE c = "AE" -> "ae_revenue_multiplier_brackets"
    [] c = "SDR" -> "sdr_revenue_multiplier_brackets"
    [] c = "Marketing" -> "marketing_revenue_multiplier_brackets"

\* C21: in the edge functions, for every team string the containment test
\* classifies as AE, SDR or Marketing ('ae' and 'SDR Team' included), the
\* multiplier applied to totalRevenue is the one of that team's own table
C21_MultiplierMatchesBranch ==
  (Returned /\ variant \in {"edge", "monthly"} /\ KeywordClass(team) # "none") =>
    result.adjustedRevenue =
      Scaled(TableOrEmpty(settings, ClassTableName(KeywordClass(team))),
             result.totalRevenue)

\* the AE branch is what the copy at hand runs for the team
TakesAeBranch ==
  \/ variant = "lib" /\ team = t_AE
  \/ variant = "monthly" /\ KeywordClass(team) = "AE"

\* the amounts listed in usedPaymentTermBonuses, added up
ListedBonuses(r) ==
  SumOver([i \in DOMAIN r.usedPaymentTermBonuses |-> r.usedPaymentTermBonuses[i].amount],
          DOMAIN r.usedPaymentTermBonuses)

\* C22: whenever src/lib or the monthly run takes the AE branch,
\* usedBracketPercent is the percent of the bracket that adjustedRevenue
\* matched and that went into dealCommission (undefined exactly when none
\* matched), and the amounts of usedPaymentTermBonuses add up to dealCommission
\* minus the bracket part
C22_DiagnosticsAgree ==
  (Returned /\ TakesAeBranch) =>
    LET k == FirstMatch(settings.ae_brackets, result.adjustedRevenue, 10)
    IN /\ result.usedBracketPercent =
            IF k = 0 THEN Undefined ELSE settings.ae_brackets[k].percent
       /\ ListedBonuses(result) =
            result.dealCommission - ExpectedBracketPart(result.adjustedRevenue, settings)

\* the calendar week of a timestamp: the index of its Monday-to-Sunday week,
\* counted from the week of Monday 2024-01-01
CalendarWeek(day) == day \div 7

MeetingsInCalendarWeek(ms, c) ==
  Cardinality({j \in DOMAIN ms : CalendarWeek(ms[j].timestamp) = c})

\* C23: for SDR and SDR-like Marketing, every weeklyBreakdown entry counts
\* the meetings of one calendar week and of no other: meetings of different
\* calendar weeks, weeks of different years with the same ISO week number
\* included, are never merged into one bucket
C23_CalendarWeekBuckets ==
  (Returned /\ SdrLike) =>
    \A i \in DOMAIN result.weeklyBreakdown :
      \E j \in DOMAIN meetings :
        result.weeklyBreakdown[i].meetings =
          MeetingsInCalendarWeek(meetings, CalendarWeek(meetings[j].timestamp))

\* a table sorted by ascending min, starting at 0, its ranges disjoint and
\* gap-free, the last one unbounded
CoversFromZero(t) ==
  /\ t # <<>>
  /\ t[1].min = 0
  /\ \A i \in 1..(Len(t) - 1) :
       t[i].max # Null /\ t[i].min < t[i].max /\ t[i].max = t[i + 1].min
  /\ t[Len(t)].max = Null

MatchCount(t, value, scale) ==
  Cardinality({i \in DOMAIN t : Holds(t[i], value, scale)})

\* revenues around the bracket bounds, and the meeting counts of a week
SampleRevenues == {0, 1, 49999, 50000, 50001, 99999, 100000, 100001, 5000000}
SampleCounts == 0..12

SeededTables ==
  /\ settings.ae_brackets = DefaultAeBrackets
  /\ settings.sdr_meeting_tiers = DefaultTiers

\* C24: the seeded ae_brackets and sdr_meeting_tiers are sorted by ascending
\* min, start at 0, are disjoint and gap-free with a final unbounded range,
\* and the bracket percents are non-decreasing; so every revenue and every
\* meeting count matches exactly one entry, and under the seeded tables each
\* AE result has a bracket and each week of an SDR has an entry
C24_SeededTablesCover ==
  /\ CoversFromZero(DefaultAeBrackets)
  /\ CoversFromZero(DefaultTiers)
  /\ PercentsNonDecreasing(DefaultAeBrackets)
  /\ \A r \in SampleRevenues : MatchCount(DefaultAeBrackets, r, 1) = 1
  /\ \A n \in SampleCounts : MatchCount(DefaultTiers, n, 1) = 1
  /\ (Returned /\ SeededTables) =>
       /\ team = t_AE =>
            MatchCount(settings.ae_brackets, result.adjustedRevenue, 10) = 1
       /\ (team = t_AE /\ variant = "lib") => result.usedBracketPercent # Undefined
       /\ SdrLike =>
            /\ Len(result.weeklyBreakdown) = Cardinality(Weeks(meetings))
            /\ BucketedMeetings(result.weeklyBreakdown) = result.totalMeetings

\* under the seeded tables: an AE whose adjusted revenue falls in the second
\* bracket after the multiplier moved it there
C24_Witness ==
  /\ Returned /\ SeededTables
  /\ team = t_AE /\ variant = "lib"
  /\ result.usedBracketPercent = 75
  /\ result.totalRevenue < 50000
  /\ settings.sdr_meeting_tiers[3].max = Null

\* C25: in the monthly run an exception while fetching or computing for one
\* owner yields a run-log row with success = false and a results entry with
\* status 'error' for that owner, every later owner is still processed, and
\* the response's results list holds one entry per owner in owner order
C25_OwnersIndependent ==
  /\ cron.response # "error500"
  /\ cron.response = "none" => Len(cron.results) = cron.next - 1
  /\ cron.response = "ok" => Len(cron.results) = Len(cron.owners)
  /\ \A i \in DOMAIN cron.results :
       /\ cron.results[i].owner = cron.owners[i].email
       /\ cron.results[i].status = "error" =>
            \E j \in DOMAIN cron.runLogs :
              /\ cron.runLogs[j].rep_name = cron.owners[i].email
              /\ ~cron.runLogs[j].success

\* C26: in the calculate-commission handler for an SDR each qualifying CRM
\* meeting is included at most once in the meetings list given to the engine,
\* also when it is associated with several of the rep's deals or when two
\* deals resolve to the same deal record
C26_MeetingAtMostOnce ==
  \A id \in CrmMeetingIds :
    Cardinality({i \in DOMAIN handler.meetings :
                   handler.meetings[i].meetingId = id}) <= 1

ExactTeams == {t_AE, t_SDR, t_Marketing}

\* C27: for team exactly 'AE', 'SDR' or 'Marketing', numeric amounts and the
\* same arguments, src/lib's calculateCommission and the edge-function copies
\* return the same totalRevenue, dealCommission and totalMeetings
C27_CopiesAgree ==
  (Returned /\ team \in ExactTeams) =>
    \A v \in Variants :
      LET r == calculateCommission(v, team, deals, meetings, settings)
      IN /\ r.status = "ok"
         /\ r.totalRevenue = result.totalRevenue
         /\ r.dealCommission = result.dealCommission
         /\ r.totalMeetings = result.totalMeetings

\* C28: on the Run Commissions page, once a 'Run Calculation' and a 'Test
\* Last Month' request have completed in whatever order, the result displayed
\* and the payload sent by 'Sync to HubSpot' are those of the request that was
\* started last
C28_LatestRequestShown ==
  /\ ( /\ page.calculate = <<>>
       /\ page.testLastMonth = <<>>
       /\ page.started \in page.succeeded )
       => page.results[1].request = page.started
  /\ ( /\ page.synced # <<>>
       /\ ~page.synced[1].pending
       /\ page.synced[1].latest \in page.succeeded )
       => page.synced[1].payload.request = page.synced[1].latest

NonNegative(x) == x # NaN /\ x # Undefined /\ x >= 0

\* no branch of the copy at hand matches the team string
MatchesNoBranch ==
  IF variant = "lib" THEN team \notin ExactTeams ELSE KeywordClass(team) = "none"

\* C29: with non-negative amounts, percents, multipliers and tier bonuses the
\* call ends without error and totalRevenue, dealCommission, meetingBonus and
\* totalCommission are non-negative for every team; a team matching no branch
\* gets dealCommission = meetingBonus = totalCommission = 0
C29_NonNegativeResult ==
  result.status # "none" =>
    /\ result.status = "ok"
    /\ NonNegative(result.totalRevenue)
    /\ NonNegative(result.dealCommission)
    /\ NonNegative(result.meetingBonus)
    /\ NonNegative(result.totalCommission)
    /\ MatchesNoBranch =>
         /\ result.dealCommission = 0
         /\ result.meetingBonus = 0
         /\ result.totalCommission = 0

====
